---- MODULE Spec2Model ----
(***************************************************************************)
(* Model of the AES browser utility: the hex codec (CryptoUtils), the      *)
(* cipher adapter (AESCrypto) and the orchestrator (AESCryptoManager) with *)
(* the part of the UI layer (UIManager) the orchestrator drives.           *)
(*                                                                         *)
(* A JavaScript string is a sequence of UTF-16 code units (naturals), a    *)
(* Uint8Array a sequence of bytes 0..255.                                  *)
(***************************************************************************)
EXTENDS Integers, Sequences, FiniteSets, TLC

VARIABLES
    probe,          \* last direct application of a CryptoUtils function (codec specification)
    config,         \* AESCrypto.config, fixed by the constructor
    calls,          \* AESCrypto.encrypt / decrypt calls that have been issued
    generated,      \* last value returned by AESCrypto.generateKeyAndIV to a direct caller
    aesKey,         \* value of the #aesKey input
    iv,             \* value of the #iv input
    encryptInput,   \* innerHTML of the #encryptInput editable region
    decryptInput,   \* innerHTML of the #decryptInput editable region
    report,         \* message elements attached to #report, oldest first
    messageCounter, \* UIManager.messageCounter
    timers,         \* pending setTimeout callbacks of the messages, in scheduling order
    page            \* the document and the module of main.ts: what the platform offers,
                    \* how far loading has come, the managers constructed, the clock

vars == <<probe, config, calls, generated, aesKey, iv, encryptInput, decryptInput,
          report, messageCounter, timers, page>>

(***************************************************************************)
(* Strings                                                                 *)
(***************************************************************************)

\* the characters /[0-9A-Fa-f]/ accepts
IsHexDigit(c) == c \in (48..57) \cup (65..70) \cup (97..102)

\* WhiteSpace and LineTerminator code units, which String.prototype.trim strips
IsWhiteSpace(c) ==
    c \in {9, 10, 11, 12, 13, 32, 160, 5760, 8232, 8233, 8239, 8287, 12288, 65279}
          \cup (8192..8202)

RECURSIVE TrimStart(_)
TrimStart(s) ==
    IF s = <<>> THEN <<>>
    ELSE IF IsWhiteSpace(Head(s)) THEN TrimStart(Tail(s))
    ELSE s

RECURSIVE TrimEnd(_)
TrimEnd(s) ==
    IF s = <<>> THEN <<>>
    ELSE IF IsWhiteSpace(s[Len(s)]) THEN TrimEnd(SubSeq(s, 1, Len(s) - 1))
    ELSE s

\* String.prototype.trim
Trim(s) == TrimEnd(TrimStart(s))

\* n copies of the code unit c
Rep(c, n) == [i \in 1..n |-> c]

\* all sequences over S of length at most n
RECURSIVE SeqsUpTo(_, _)
SeqsUpTo(S, n) ==
    IF n = 0 THEN {<<>>}
    ELSE LET shorter == SeqsUpTo(S, n - 1)
         IN  shorter \cup {Append(s, x) : s \in {t \in shorter : Len(t) = n - 1}, x \in S}

\* a function result: a returned value or a thrown Error with its message
Returned(v) == [threw |-> FALSE, msg |-> <<>>, val |-> v]
Thrown(m)   == [threw |-> TRUE, msg |-> m, val |-> <<>>]

(***************************************************************************)
(* CryptoUtils                                                             *)
(***************************************************************************)

\* a faulty variant: the regular expression written with * instead of +
IsValidHexStar(hex) ==
    LET t == Trim(hex) IN \A i \in 1..Len(t) : IsHexDigit(t[i])

\* CryptoUtils.isValidHex: /^[0-9A-Fa-f]+$/.test(hex.trim())
IsValidHex(hex) ==
    LET t == Trim(hex)
    IN  Len(t) >= 1 /\ \A i \in 1..Len(t) : IsHexDigit(t[i])

\* legacy main.js CryptoUtils.isValidHex: /^[0-9A-Fa-f]*$/.test(hex) && hex.length % 2 === 0
LegacyIsValidHex(hex) ==
    /\ \A i \in 1..Len(hex) : IsHexDigit(hex[i])
    /\ Len(hex) % 2 = 0

\* value of one hexadecimal digit, as parseInt(.., 16) reads it
HexVal(c) ==
    IF c \in 48..57 THEN c - 48
    ELSE IF c \in 65..70 THEN c - 55
    ELSE c - 87

\* the digit Number.prototype.toString(16) writes for 0..15
HexChar(n) == IF n < 10 THEN 48 + n ELSE 87 + n

\* a faulty variant: decoding without the isValidHex guard (parseInt yields NaN, stored as 0)
HexToUint8ArrayUnchecked(hexString) ==
    LET cleanHex      == Trim(hexString)
        normalizedHex == IF Len(cleanHex) % 2 = 0 THEN cleanHex ELSE <<48>> \o cleanHex
        byteAt(i)     == LET a == normalizedHex[2 * i - 1]
                             b == normalizedHex[2 * i]
                         IN  IF IsHexDigit(a) /\ IsHexDigit(b)
                             THEN 16 * HexVal(a) + HexVal(b)
                             ELSE IF IsHexDigit(a) THEN HexVal(a) ELSE 0
    IN  Returned([i \in 1..(Len(normalizedHex) \div 2) |-> byteAt(i)])

\* CryptoUtils.hexToUint8Array
HexToUint8Array(hexString) ==
    LET cleanHex      == Trim(hexString)
        normalizedHex == IF Len(cleanHex) % 2 = 0 THEN cleanHex ELSE <<48>> \o cleanHex
    IN  IF ~IsValidHex(cleanHex)
        THEN Thrown(<<"String hexadecimal invalida">>)
        ELSE Returned([i \in 1..(Len(normalizedHex) \div 2) |->
                          16 * HexVal(normalizedHex[2 * i - 1]) + HexVal(normalizedHex[2 * i])])

\* a faulty variant: byte.toString(16) without padStart(2, '0')
Uint8ArrayToHexNoPad(array) ==
    LET RECURSIVE go(_)
        go(a) == IF a = <<>> THEN <<>>
                 ELSE (IF Head(a) < 16 THEN <<HexChar(Head(a))>>
                       ELSE <<HexChar(Head(a) \div 16), HexChar(Head(a) % 16)>>)
                      \o go(Tail(a))
    IN  go(array)

\* CryptoUtils.uint8ArrayToHex: two lowercase digits per byte, in order
Uint8ArrayToHex(array) ==
    [i \in 1..(2 * Len(array)) |->
        IF i % 2 = 1 THEN HexChar(array[(i + 1) \div 2] \div 16)
        ELSE HexChar(array[i \div 2] % 16)]

\* TextEncoder.encode from position i: UTF-8, an unpaired surrogate becomes U+FFFD
RECURSIVE EncodeFrom(_, _)
EncodeFrom(text, i) ==
    IF i > Len(text) THEN <<>>
    ELSE LET cu == text[i]
             paired == /\ cu \in 55296..56319
                       /\ i < Len(text)
                       /\ text[i + 1] \in 56320..57343
             cp == 65536 + (cu - 55296) * 1024 + (text[i + 1] - 56320)
         IN  IF cu < 128 THEN <<cu>> \o EncodeFrom(text, i + 1)
             ELSE IF cu < 2048
                  THEN <<192 + (cu \div 64), 128 + (cu % 64)>> \o EncodeFrom(text, i + 1)
             ELSE IF paired
                  THEN <<240 + (cp \div 262144), 128 + ((cp \div 4096) % 64),
                         128 + ((cp \div 64) % 64), 128 + (cp % 64)>>
                       \o EncodeFrom(text, i + 2)
             ELSE IF cu \in 55296..57343
                  THEN <<239, 191, 189>> \o EncodeFrom(text, i + 1)
             ELSE <<224 + (cu \div 4096), 128 + ((cu \div 64) % 64), 128 + (cu % 64)>>
                  \o EncodeFrom(text, i + 1)

\* CryptoUtils.textToArrayBuffer
TextToArrayBuffer(text) == EncodeFrom(text, 1)

\* the code units of one decoded code point
CodeUnits(cp) ==
    IF cp < 65536 THEN <<cp>>
    ELSE <<55296 + ((cp - 65536) \div 1024), 56320 + ((cp - 65536) % 1024)>>

\* TextDecoder.decode from position i: UTF-8, non-fatal; a malformed sequence yields
\* U+FFFD and decoding resumes at the byte that broke it
RECURSIVE DecodeFrom(_, _)
DecodeFrom(b, i) ==
    IF i > Len(b) THEN <<>>
    ELSE LET b0 == b[i]
             need == IF b0 \in 194..223 THEN 1
                     ELSE IF b0 \in 224..239 THEN 2
                     ELSE IF b0 \in 240..244 THEN 3
                     ELSE 0
             lower == IF b0 = 224 THEN 160 ELSE IF b0 = 240 THEN 144 ELSE 128
             upper == IF b0 = 237 THEN 159 ELSE IF b0 = 244 THEN 143 ELSE 191
             okAt(k) == /\ i + k <= Len(b)
                        /\ IF k = 1 THEN b[i + k] \in lower..upper
                           ELSE b[i + k] \in 128..191
             good == CHOOSE g \in 0..need :
                        /\ \A k \in 1..g : okAt(k)
                        /\ g < need => ~okAt(g + 1)
             cp == IF need = 1 THEN (b0 - 192) * 64 + (b[i + 1] - 128)
                   ELSE IF need = 2
                        THEN (b0 - 224) * 4096 + (b[i + 1] - 128) * 64 + (b[i + 2] - 128)
                   ELSE (b0 - 240) * 262144 + (b[i + 1] - 128) * 4096
                        + (b[i + 2] - 128) * 64 + (b[i + 3] - 128)
         IN  IF b0 < 128 THEN <<b0>> \o DecodeFrom(b, i + 1)
             ELSE IF need = 0 THEN <<65533>> \o DecodeFrom(b, i + 1)
             ELSE IF good < need THEN <<65533>> \o DecodeFrom(b, i + 1 + good)
             ELSE CodeUnits(cp) \o DecodeFrom(b, i + 1 + need)

\* a faulty variant: a decoder constructed with ignoreBOM: true keeps a leading U+FEFF
ArrayBufferToTextKeepBOM(buffer) == DecodeFrom(buffer, 1)

\* CryptoUtils.arrayBufferToText: new TextDecoder() strips a leading byte order mark
ArrayBufferToText(buffer) ==
    IF Len(buffer) >= 3 /\ SubSeq(buffer, 1, 3) = <<239, 187, 191>>
    THEN DecodeFrom(buffer, 4)
    ELSE DecodeFrom(buffer, 1)

\* crypto.getRandomValues on a fresh Uint8Array(length): any bytes; the model draws
\* the filling from a few patterns selected by seed
RandomValues(length, seed) ==
    [i \in 1..length |-> IF seed = 0 THEN 0
                         ELSE IF seed = 1 THEN 255
                         ELSE (seed * i * 37) % 256]

\* CryptoUtils.generateRandomKey
GenerateRandomKey(length, seed) == Uint8ArrayToHex(RandomValues(length, seed))

\* CryptoUtils.generateRandomIV
GenerateRandomIV(length, seed) == Uint8ArrayToHex(RandomValues(length, seed))

\* a faulty variant: the size computed on the trimmed string
IsValidKeySizeTrimmed(keyHex) ==
    LET n == Len(Trim(keyHex)) IN n = 32 \/ n = 48 \/ n = 64

\* CryptoUtils.isValidKeySize: keyHex.length / 2 is 16, 24 or 32 (odd lengths give a
\* fraction, which equals none of them)
IsValidKeySize(keyHex) ==
    LET n == Len(keyHex) IN n = 32 \/ n = 48 \/ n = 64

\* CryptoUtils.isValidIVSize: ivHex.length / 2 === expectedLength
IsValidIVSize(ivHex, expectedLength) == Len(ivHex) = 2 * expectedLength

(***************************************************************************)
(* The platform: crypto.subtle.  The cipher itself is not part of the      *)
(* program; it is modelled as a keyed byte transform that decrypt inverts, *)
(* with the parameter checks and the failures of the Web Crypto operations.*)
(***************************************************************************)

\* AES block size in bytes, also the length of the AES-GCM tag
BlockSize == 16

\* messages of the exceptions the backend rejects with
BackendMessages ==
    {"backend: invalid AES key length", "backend: invalid IV length",
     "backend: operation failed (padding)", "backend: operation failed (tag)"}

\* crypto.subtle.importKey('raw', buffer, {name}, false, [..]): DataError unless the
\* raw key is 128, 192 or 256 bits long
ImportKey(keyData) ==
    IF Len(keyData) \in {16, 24, 32}
    THEN Returned(keyData)
    ELSE Thrown(<<"backend: invalid AES key length">>)

\* the keyed transform (dir = 1) and its inverse (dir = -1)
Mix(key, ivData, data, dir) ==
    [i \in 1..Len(data) |->
        (data[i] + 512 + dir * (key[((i - 1) % Len(key)) + 1]
                                + ivData[((i - 1) % Len(ivData)) + 1])) % 256]

RECURSIVE SumBytes(_)
SumBytes(b) == IF b = <<>> THEN 0 ELSE (Head(b) + SumBytes(Tail(b))) % 256

\* the authentication tag of AES-GCM over a ciphertext
Tag(key, ivData, cipherBytes) ==
    [i \in 1..BlockSize |->
        (SumBytes(cipherBytes) + key[((i - 1) % Len(key)) + 1]
         + ivData[((i - 1) % Len(ivData)) + 1] + i) % 256]

\* the IV lengths an algorithm takes: one block for AES-CBC, any for AES-GCM
IvAccepted(algorithm, ivData) ==
    IF algorithm = "AES-CBC" THEN Len(ivData) = BlockSize ELSE Len(ivData) >= 1

\* crypto.subtle.encrypt({name, iv}, key, data)
SubtleEncrypt(algorithm, ivData, key, data) ==
    IF ~IvAccepted(algorithm, ivData) THEN Thrown(<<"backend: invalid IV length">>)
    ELSE IF algorithm = "AES-CBC"
    THEN LET padLen == BlockSize - (Len(data) % BlockSize)
         IN  Returned(Mix(key, ivData, data \o Rep(padLen, padLen), 1))
    ELSE LET body == Mix(key, ivData, data, 1)
         IN  Returned(body \o Tag(key, ivData, body))

\* crypto.subtle.decrypt({name, iv}, key, data)
SubtleDecrypt(algorithm, ivData, key, data) ==
    IF ~IvAccepted(algorithm, ivData) THEN Thrown(<<"backend: invalid IV length">>)
    ELSE IF algorithm = "AES-CBC"
    THEN IF Len(data) = 0 \/ Len(data) % BlockSize # 0
         THEN Thrown(<<"backend: operation failed (padding)">>)
         ELSE LET padded == Mix(key, ivData, data, -1)
                  padLen == padded[Len(padded)]
              IN  IF /\ padLen \in 1..BlockSize
                     /\ \A i \in (Len(padded) - padLen + 1)..Len(padded) : padded[i] = padLen
                  THEN Returned(SubSeq(padded, 1, Len(padded) - padLen))
                  ELSE Thrown(<<"backend: operation failed (padding)">>)
    ELSE IF Len(data) < BlockSize
         THEN Thrown(<<"backend: operation failed (tag)">>)
         ELSE LET body == SubSeq(data, 1, Len(data) - BlockSize)
                  tag  == SubSeq(data, Len(data) - BlockSize + 1, Len(data))
              IN  IF tag = Tag(key, ivData, body)
                  THEN Returned(Mix(key, ivData, body, -1))
                  ELSE Thrown(<<"backend: operation failed (tag)">>)

(***************************************************************************)
(* AESCrypto                                                               *)
(***************************************************************************)

\* the constructor's default configuration
DefaultKeyLength == 128
DefaultIvLength == 16
DefaultConfig ==
    [algorithm |-> "AES-CBC", keyLength |-> DefaultKeyLength, ivLength |-> DefaultIvLength]

\* a faulty variant: validation that leaves out the two size checks
ValidateParametersNoSize(cfg, keyHex, ivHex, operation) ==
    IF keyHex = <<>> \/ ivHex = <<>>
    THEN Thrown(<<IF operation = "encrypt" THEN "Para encriptar, forneca uma chave e IV validos."
                  ELSE "Para decriptar, forneca uma chave e IV validos.">>)
    ELSE IF ~IsValidHex(keyHex)
    THEN Thrown(<<"Chave deve ser uma string hexadecimal valida.">>)
    ELSE IF ~IsValidHex(ivHex)
    THEN Thrown(<<"IV deve ser uma string hexadecimal valida.">>)
    ELSE Returned(<<>>)

\* AESCrypto.validateParameters: the first failing check throws
ValidateParameters(cfg, keyHex, ivHex, operation) ==
    IF keyHex = <<>> \/ ivHex = <<>>
    THEN Thrown(<<IF operation = "encrypt" THEN "Para encriptar, forneca uma chave e IV validos."
                  ELSE "Para decriptar, forneca uma chave e IV validos.">>)
    ELSE IF ~IsValidHex(keyHex)
    THEN Thrown(<<"Chave deve ser uma string hexadecimal valida.">>)
    ELSE IF ~IsValidHex(ivHex)
    THEN Thrown(<<"IV deve ser uma string hexadecimal valida.">>)
    ELSE IF ~IsValidKeySize(keyHex)
    THEN Thrown(<<"Chave deve ter 128, 192 ou 256 bits (16, 24 ou 32 bytes).">>)
    ELSE IF ~IsValidIVSize(ivHex, cfg.ivLength)
    THEN Thrown(<<"IV deve ter config.ivLength bytes.">>)
    ELSE Returned(<<>>)

\* the messages validateParameters and the payload checks throw
ValidationMessages ==
    {"Para encriptar, forneca uma chave e IV validos.",
     "Para decriptar, forneca uma chave e IV validos.",
     "Chave deve ser uma string hexadecimal valida.",
     "IV deve ser uma string hexadecimal valida.",
     "Chave deve ter 128, 192 ou 256 bits (16, 24 ou 32 bytes).",
     "IV deve ter config.ivLength bytes.",
     "Texto para encriptacao nao pode estar vazio.",
     "Dados para decriptacao nao podem estar vazios.",
     "Dados encriptados devem ser uma string hexadecimal valida."}

\* what the synchronous part of encrypt / decrypt hands to the platform, or the
\* Error it threw before reaching it
Prepared(keyData, ivData, data) ==
    [threw |-> FALSE, msg |-> <<>>, keyData |-> keyData, ivData |-> ivData, data |-> data]
NotPrepared(m) ==
    [threw |-> TRUE, msg |-> m, keyData |-> <<>>, ivData |-> <<>>, data |-> <<>>]

\* a faulty variant: the empty-text check left out of encrypt
EncryptPrepareNoEmptyCheck(cfg, plainText, keyHex, ivHex) ==
    LET v == ValidateParameters(cfg, keyHex, ivHex, "encrypt")
        k == HexToUint8Array(keyHex)
        i == HexToUint8Array(ivHex)
    IN  IF v.threw THEN NotPrepared(v.msg)
        ELSE IF k.threw THEN NotPrepared(k.msg)
        ELSE IF i.threw THEN NotPrepared(i.msg)
        ELSE Prepared(k.val, i.val, TextToArrayBuffer(plainText))

\* AESCrypto.encrypt up to its first await (lines 64-70)
EncryptPrepare(cfg, plainText, keyHex, ivHex) ==
    LET v == ValidateParameters(cfg, keyHex, ivHex, "encrypt")
        k == HexToUint8Array(keyHex)
        i == HexToUint8Array(ivHex)
    IN  IF v.threw THEN NotPrepared(v.msg)
        ELSE IF plainText = <<>>
        THEN NotPrepared(<<"Texto para encriptacao nao pode estar vazio.">>)
        ELSE IF k.threw THEN NotPrepared(k.msg)
        ELSE IF i.threw THEN NotPrepared(i.msg)
        ELSE Prepared(k.val, i.val, TextToArrayBuffer(plainText))

\* AESCrypto.decrypt up to its first await (lines 96-105)
DecryptPrepare(cfg, encryptedHex, keyHex, ivHex) ==
    LET v == ValidateParameters(cfg, keyHex, ivHex, "decrypt")
        k == HexToUint8Array(keyHex)
        i == HexToUint8Array(ivHex)
        d == HexToUint8Array(encryptedHex)
    IN  IF v.threw THEN NotPrepared(v.msg)
        ELSE IF encryptedHex = <<>>
        THEN NotPrepared(<<"Dados para decriptacao nao podem estar vazios.">>)
        ELSE IF ~IsValidHex(encryptedHex)
        THEN NotPrepared(<<"Dados encriptados devem ser uma string hexadecimal valida.">>)
        ELSE IF k.threw THEN NotPrepared(k.msg)
        ELSE IF i.threw THEN NotPrepared(i.msg)
        ELSE IF d.threw THEN NotPrepared(d.msg)
        ELSE Prepared(k.val, i.val, d.val)

\* the catch clause of encrypt / decrypt: every Error is thrown again with the
\* operation's prefix put before its message (every value the validation, the codec
\* and the platform throw is an Error, a DOMException included)
Rewrap(operation, msg) ==
    Thrown(<<IF operation = "encrypt" THEN "Erro na encriptacao: "
             ELSE "Erro na decriptacao: ">> \o msg)

\* a faulty variant: generateKeyAndIV passing the key length in bits
GenerateKeyAndIVBits(cfg, keySeed, ivSeed) ==
    [key |-> GenerateRandomKey(cfg.keyLength, keySeed),
     iv  |-> GenerateRandomIV(cfg.ivLength, ivSeed)]

\* AESCrypto.generateKeyAndIV
GenerateKeyAndIV(cfg, keySeed, ivSeed) ==
    [key |-> GenerateRandomKey(cfg.keyLength \div 8, keySeed),
     iv  |-> GenerateRandomIV(cfg.ivLength, ivSeed)]

\* a call of encrypt or decrypt, from its invocation to the settling of its promise
\*   pc       "importKey": awaiting crypto.subtle.importKey; "cipher": awaiting
\*            crypto.subtle.encrypt / decrypt; "settled": promise settled;
\*            "done": the awaiting handler has run
\*   platform the platform operations the call has invoked, in order
\*   plain    for a decrypt of an encrypt's result, the text that was encrypted
NewCall(cfg, src, operation, payload, keyHex, ivHex, chained, plain) ==
    LET prep == IF operation = "encrypt" THEN EncryptPrepare(cfg, payload, keyHex, ivHex)
                ELSE DecryptPrepare(cfg, payload, keyHex, ivHex)
    IN  [src |-> src, op |-> operation, payload |-> payload, keyHex |-> keyHex,
         ivHex |-> ivHex, chained |-> chained, plain |-> plain,
         keyData |-> prep.keyData, ivData |-> prep.ivData, data |-> prep.data,
         pc |-> IF prep.threw THEN "settled" ELSE "importKey",
         platform |-> IF prep.threw THEN <<>> ELSE <<"importKey">>,
         outcome |-> IF prep.threw THEN Rewrap(operation, prep.msg) ELSE Returned(<<>>)]

\* createCryptoKey's await resumes: the key was imported and the cipher operation is
\* invoked, or importKey rejected and the catch clause runs
AfterImportKey(cfg, c) ==
    LET k == ImportKey(c.keyData)
    IN  IF k.threw
        THEN [c EXCEPT !.pc = "settled", !.outcome = Rewrap(c.op, k.msg)]
        ELSE [c EXCEPT !.pc = "cipher", !.platform = Append(@, c.op)]

\* a faulty variant: the key, the IV and the data kept in fields of the instance,
\* which every call overwrites, and not in the locals of the call
AfterCipherInstanceFields(cfg, c) ==
    LET last == calls[Len(calls)]
        r == IF c.op = "encrypt"
             THEN SubtleEncrypt(cfg.algorithm, last.ivData, last.keyData, last.data)
             ELSE SubtleDecrypt(cfg.algorithm, last.ivData, last.keyData, last.data)
    IN  IF r.threw
        THEN [c EXCEPT !.pc = "settled", !.outcome = Rewrap(c.op, r.msg)]
        ELSE [c EXCEPT !.pc = "settled",
                       !.outcome = IF c.op = "encrypt" THEN Returned(Uint8ArrayToHex(r.val))
                                   ELSE Returned(ArrayBufferToText(r.val))]

\* the cipher operation's await resumes: the result is converted and returned, or the
\* operation rejected and the catch clause runs
AfterCipher(cfg, c) ==
    LET r == IF c.op = "encrypt"
             THEN SubtleEncrypt(cfg.algorithm, c.ivData, c.keyData, c.data)
             ELSE SubtleDecrypt(cfg.algorithm, c.ivData, c.keyData, c.data)
    IN  IF r.threw
        THEN [c EXCEPT !.pc = "settled", !.outcome = Rewrap(c.op, r.msg)]
        ELSE [c EXCEPT !.pc = "settled",
                       !.outcome = IF c.op = "encrypt" THEN Returned(Uint8ArrayToHex(r.val))
                                   ELSE Returned(ArrayBufferToText(r.val))]

(***************************************************************************)
(* UIManager                                                               *)
(***************************************************************************)

\* the <br> element in the content of an editable region; every other item of the
\* content is a code unit of text (the values written here hold no markup characters)
BR == 1114112

\* an element other than <br> in the content of an editable region (its start tag, at
\* the place where the element begins)
ElementNode == 1114113

\* what the HTML parser makes of a string assigned to innerHTML, as the content of the
\* region: text, <br> and other elements
\*   "<" and a letter begin a start tag that runs to the next ">": an element, <br> if
\*       the tag name is br; "</" and a letter begin an end tag, which adds nothing;
\*       a tag that the string ends in is dropped with all that follows
\*   "</>" adds nothing; "</" and any other character begin a comment that runs to
\*       the next ">" or to the end
\*   "&lt", "&gt", "&amp", with or without ";", are the characters they name
\*   every other character is text (numeric character references, "<!" and "<?" are
\*       not treated: no string of the model holds them)
ParseHTML(str) ==
    LET IsLetter(c) == c \in (65..90) \cup (97..122)
        StartsWith(i, w) == i + Len(w) - 1 <= Len(str) /\ SubSeq(str, i, i + Len(w) - 1) = w
        RECURSIVE FindGt(_)
        FindGt(i) == IF i > Len(str) THEN 0 ELSE IF str[i] = 62 THEN i ELSE FindGt(i + 1)
        RECURSIVE NameEnd(_)
        NameEnd(i) == IF i > Len(str) \/ str[i] \in {9, 10, 12, 32, 47, 62} THEN i
                      ELSE NameEnd(i + 1)
        IsBr(i) == LET name == SubSeq(str, i, NameEnd(i) - 1)
                   IN  Len(name) = 2 /\ name[1] \in {66, 98} /\ name[2] \in {82, 114}
        Semicolon(i) == IF i <= Len(str) /\ str[i] = 59 THEN i + 1 ELSE i
        RECURSIVE From(_)
        From(i) ==
            IF i > Len(str) THEN <<>>
            ELSE IF str[i] = 60 /\ i < Len(str) /\ IsLetter(str[i + 1])
            THEN IF FindGt(i + 2) = 0 THEN <<>>
                 ELSE <<IF IsBr(i + 1) THEN BR ELSE ElementNode>> \o From(FindGt(i + 2) + 1)
            ELSE IF StartsWith(i, <<60, 47, 62>>) THEN From(i + 3)
            ELSE IF str[i] = 60 /\ i + 1 < Len(str) /\ str[i + 1] = 47
            THEN IF FindGt(i + 2) = 0 THEN <<>> ELSE From(FindGt(i + 2) + 1)
            ELSE IF StartsWith(i, <<38, 108, 116>>) THEN <<60>> \o From(Semicolon(i + 3))
            ELSE IF StartsWith(i, <<38, 103, 116>>) THEN <<62>> \o From(Semicolon(i + 3))
            ELSE IF StartsWith(i, <<38, 97, 109, 112>>) THEN <<38>> \o From(Semicolon(i + 4))
            ELSE <<str[i]>> \o From(i + 1)
    IN  From(1)

\* String.prototype.replace(/\n/g, '<br>')
RECURSIVE NewlinesToBreakTags(_)
NewlinesToBreakTags(str) ==
    IF str = <<>> THEN <<>>
    ELSE (IF Head(str) = 10 THEN <<60, 98, 114, 62>> ELSE <<Head(str)>>)
            \o NewlinesToBreakTags(Tail(str))

\* how far the match of (<br>\s*)+ that starts at position i extends: the number of
\* <br> elements matched and the position after the match
RECURSIVE BreakRun(_, _, _)
BreakRun(html, i, count) ==
    IF i <= Len(html) /\ html[i] = BR
    THEN LET RECURSIVE skip(_)
             skip(j) == IF j <= Len(html) /\ html[j] # BR /\ IsWhiteSpace(html[j])
                        THEN skip(j + 1) ELSE j
         IN  BreakRun(html, skip(i + 1), count + 1)
    ELSE [count |-> count, next |-> i]

\* UIManager.normalizeContentEditableHTML: the elements other than <br> are removed
\* (their text stays) and every run of three or more <br> (white space between them
\* included) becomes <br><br>
RECURSIVE NormalizeFrom(_, _)
NormalizeFrom(html, i) ==
    IF i > Len(html) THEN <<>>
    ELSE LET run == BreakRun(html, i, 0)
         IN  IF run.count >= 3 THEN <<BR, BR>> \o NormalizeFrom(html, run.next)
             ELSE <<html[i]>> \o NormalizeFrom(html, i + 1)

NormalizeContentEditableHTML(html) ==
    NormalizeFrom(SelectSeq(html, LAMBDA n : n # ElementNode), 1)

\* UIManager.getContentEditableValue: <br> read as a newline, the text content of what
\* remains (the text within elements included), trimmed
GetContentEditableValue(html) ==
    LET text == SelectSeq(html, LAMBDA n : n # ElementNode)
    IN  Trim([i \in 1..Len(text) |-> IF text[i] = BR THEN 10 ELSE text[i]])

\* a faulty variant: the value set as text (textContent), newlines apart
SetContentEditableValueAsText(value) ==
    NormalizeContentEditableHTML([i \in 1..Len(value) |-> IF value[i] = 10 THEN BR ELSE value[i]])

\* UIManager.setContentEditableValue: the value, its newlines written as <br>, is
\* assigned to innerHTML, then the input event it dispatches runs the normalization
SetContentEditableValue(value) ==
    NormalizeContentEditableHTML(ParseHTML(NewlinesToBreakTags(value)))

\* UIManager.getInputValues
GetInputValues ==
    [keyHex |-> Trim(aesKey), ivHex |-> Trim(iv),
     encryptData |-> GetContentEditableValue(encryptInput),
     decryptData |-> GetContentEditableValue(decryptInput)]

\* UIManager.messageConfig as the constructor defaults it, and the delay of the
\* fade-in timer
BaseDuration == 3000
DurationFactor == 50
FadeTimeout == 300
FadeInDelay == 10

\* the number of spaces in a piece of message text
Spaces(piece) ==
    CASE piece = "Nova chave AES e IV gerados com sucesso!" -> 7
      [] piece = "Chave AES e IV sao obrigatorios. Use Gerar Chaves se necessario." -> 10
      [] piece = "Digite o texto a ser encriptado." -> 5
      [] piece = "Digite os dados a serem decriptados." -> 5
      [] piece = "Encriptando dados..." -> 1
      [] piece = "Decriptando dados..." -> 1
      [] piece = "Dados encriptados com sucesso!" -> 3
      [] piece = "Dados decriptados com sucesso!" -> 3
      [] piece = "Erro na encriptacao: " -> 3
      [] piece = "Erro na decriptacao: " -> 3
      [] piece = "Para encriptar, forneca uma chave e IV validos." -> 7
      [] piece = "Para decriptar, forneca uma chave e IV validos." -> 7
      [] piece = "Chave deve ser uma string hexadecimal valida." -> 6
      [] piece = "IV deve ser uma string hexadecimal valida." -> 6
      [] piece = "Chave deve ter 128, 192 ou 256 bits (16, 24 ou 32 bytes)." -> 12
      [] piece = "IV deve ter config.ivLength bytes." -> 7
      [] piece = "Texto para encriptacao nao pode estar vazio." -> 6
      [] piece = "Dados para decriptacao nao podem estar vazios." -> 6
      [] piece = "Dados encriptados devem ser uma string hexadecimal valida." -> 7
      [] piece = "String hexadecimal invalida" -> 2
      [] piece = "backend: invalid AES key length" -> 4
      [] piece = "backend: invalid IV length" -> 3
      [] piece = "backend: operation failed (padding)" -> 3
      [] piece = "backend: operation failed (tag)" -> 3
      [] piece = "um dois tres quatro cinco" -> 4
      [] piece = "a b c d ef" -> 4
      [] OTHER -> 0

\* message.split(' ').length and message.length of a message given by its pieces
RECURSIVE SpacesIn(_)
SpacesIn(message) ==
    IF message = <<>> THEN 0 ELSE Spaces(Head(message)) + SpacesIn(Tail(message))
RECURSIVE LengthOf(_)
LengthOf(message) ==
    IF message = <<>> THEN 0 ELSE Len(Head(message)) + LengthOf(Tail(message))

\* UIManager.calculateMessageDuration of the legacy main.js: by characters
LegacyCalculateMessageDuration(message) ==
    BaseDuration + LengthOf(message) * DurationFactor

\* UIManager.calculateMessageDuration: by words
CalculateMessageDuration(message) ==
    LET wordCount == SpacesIn(message) + 1
        byWords == BaseDuration + wordCount * DurationFactor
    IN  IF byWords > BaseDuration THEN byWords ELSE BaseDuration

\* a faulty variant: the id made of the timestamp alone
AddMessageClockId(st, type, text) ==
    LET counter == st.messageCounter + 1
        el == <<st.owner, counter>>
        id == <<0, page.now>>
    IN  [report |-> Append(st.report, [el |-> el, id |-> id, type |-> type, text |-> text,
                                       show |-> FALSE, fadeOut |-> FALSE]),
         messageCounter |-> counter,
         owner |-> st.owner,
         id |-> id,
         timers |-> st.timers \o
                       <<[kind |-> "fadeIn", el |-> el, id |-> id, delay |-> FadeInDelay],
                         [kind |-> "expiry", el |-> el, id |-> id,
                          delay |-> CalculateMessageDuration(text)]>>]

\* UIManager.addMessage (reached through showError / showSuccess / showInfo): the
\* element is appended to #report and its fade-in and expiry timers are scheduled.
\*   el  the element created, told from every other by the UIManager that created it
\*       and the value of that manager's counter
\*   id  the id attribute msg-<counter>-<Date.now()>, which addMessage returns
AddMessage(st, type, text) ==
    LET counter == st.messageCounter + 1
        el == <<st.owner, counter>>
        id == <<counter, page.now>>
    IN  [report |-> Append(st.report, [el |-> el, id |-> id, type |-> type, text |-> text,
                                       show |-> FALSE, fadeOut |-> FALSE]),
         messageCounter |-> counter,
         owner |-> st.owner,
         id |-> id,
         timers |-> st.timers \o
                       <<[kind |-> "fadeIn", el |-> el, id |-> id, delay |-> FadeInDelay],
                         [kind |-> "expiry", el |-> el, id |-> id,
                          delay |-> CalculateMessageDuration(text)]>>]

\* the message state the handlers of the page's manager start from
Messages ==
    [report |-> report, messageCounter |-> messageCounter, timers |-> timers, owner |-> 1]

SetMessages(st) ==
    /\ report' = st.report
    /\ messageCounter' = st.messageCounter
    /\ timers' = st.timers

\* the timers but the one at position n
WithoutTimer(n) == [i \in 1..(Len(timers) - 1) |-> IF i < n THEN timers[i] ELSE timers[i + 1]]

\* a faulty variant: removeMessage that turns to the oldest message of the report when
\* no element has the id
RemoveMessageOldest(rep, tms, messageId) ==
    IF \E i \in 1..Len(rep) : rep[i].id = messageId
    THEN LET first == CHOOSE i \in 1..Len(rep) :
                         rep[i].id = messageId /\ \A j \in 1..(i - 1) : rep[j].id # messageId
         IN  [report |-> [rep EXCEPT ![first].fadeOut = TRUE],
              timers |-> Append(tms, [kind |-> "detach", el |-> rep[first].el,
                                      id |-> messageId, delay |-> FadeTimeout])]
    ELSE IF rep # <<>>
    THEN [report |-> [rep EXCEPT ![1].fadeOut = TRUE],
          timers |-> Append(tms, [kind |-> "detach", el |-> rep[1].el,
                                  id |-> rep[1].id, delay |-> FadeTimeout])]
    ELSE [report |-> rep, timers |-> tms]

\* a faulty variant: removeMessage that takes with it every message of the same text
RemoveMessageCoalesced(rep, tms, messageId) ==
    IF \E i \in 1..Len(rep) : rep[i].id = messageId
    THEN LET first == CHOOSE i \in 1..Len(rep) :
                         rep[i].id = messageId /\ \A j \in 1..(i - 1) : rep[j].id # messageId
         IN  [report |-> [i \in 1..Len(rep) |->
                            IF rep[i].text = rep[first].text
                            THEN [rep[i] EXCEPT !.fadeOut = TRUE] ELSE rep[i]],
              timers |-> Append(tms, [kind |-> "detach", el |-> rep[first].el,
                                      id |-> messageId, delay |-> FadeTimeout])]
    ELSE [report |-> rep, timers |-> tms]

\* a faulty variant: removeMessage that toggles the fade-out class
RemoveMessageToggle(rep, tms, messageId) ==
    IF \E i \in 1..Len(rep) : rep[i].id = messageId
    THEN LET first == CHOOSE i \in 1..Len(rep) :
                         rep[i].id = messageId /\ \A j \in 1..(i - 1) : rep[j].id # messageId
         IN  [report |-> [rep EXCEPT ![first].fadeOut = ~rep[first].fadeOut],
              timers |-> Append(tms, [kind |-> "detach", el |-> rep[first].el,
                                      id |-> messageId, delay |-> FadeTimeout])]
    ELSE [report |-> rep, timers |-> tms]

\* a faulty variant: removeMessage that schedules no detaching
RemoveMessageNoDetach(rep, tms, messageId) ==
    IF \E i \in 1..Len(rep) : rep[i].id = messageId
    THEN LET first == CHOOSE i \in 1..Len(rep) :
                         rep[i].id = messageId /\ \A j \in 1..(i - 1) : rep[j].id # messageId
         IN  [report |-> [rep EXCEPT ![first].fadeOut = TRUE], timers |-> tms]
    ELSE [report |-> rep, timers |-> tms]

\* UIManager.removeMessage: the first element of the document with that id, if there
\* is one, gets the fade-out class and a timer that detaches it
RemoveMessage(rep, tms, messageId) ==
    IF \E i \in 1..Len(rep) : rep[i].id = messageId
    THEN LET first == CHOOSE i \in 1..Len(rep) :
                         rep[i].id = messageId /\ \A j \in 1..(i - 1) : rep[j].id # messageId
         IN  [report |-> [rep EXCEPT ![first].fadeOut = TRUE],
              timers |-> Append(tms, [kind |-> "detach", el |-> rep[first].el,
                                      id |-> messageId, delay |-> FadeTimeout])]
    ELSE [report |-> rep, timers |-> tms]

(***************************************************************************)
(* AESCryptoManager                                                        *)
(***************************************************************************)

\* AESCryptoManager.handleGenerateKey: the fields and the message it leaves
HandleGenerateKey(cfg, keySeed, ivSeed) ==
    LET pair == GenerateKeyAndIV(cfg, keySeed, ivSeed)
    IN  [aesKey |-> pair.key, iv |-> pair.iv,
         messages |-> AddMessage(Messages, "success",
                                 <<"Nova chave AES e IV gerados com sucesso!">>)]

\* AESCryptoManager.importKey: the pair is written to the fields unless a check throws;
\* isValidIVSize is called without the configured length, so it expects 16 bytes
ManagerImportKey(cfg, keyHex, ivHex) ==
    LET failure ==
            IF ~IsValidHex(keyHex) \/ ~IsValidHex(ivHex)
            THEN <<"Chave e IV devem ser strings hexadecimais validas.">>
            ELSE IF ~IsValidKeySize(keyHex)
            THEN <<"Chave deve ter 128, 192 ou 256 bits.">>
            ELSE IF ~IsValidIVSize(ivHex, 16)
            THEN <<"IV deve ter 128 bits (16 bytes).">>
            ELSE <<>>
    IN  IF failure = <<>>
        THEN [accepted |-> TRUE, aesKey |-> keyHex, iv |-> ivHex,
              messages |-> AddMessage(Messages, "success",
                                      <<"Chave e IV importados com sucesso!">>)]
        ELSE [accepted |-> FALSE, aesKey |-> aesKey, iv |-> iv,
              messages |-> AddMessage(Messages, "error",
                                      <<"Erro ao importar chave: ">> \o failure)]

\* AESCryptoManager.handleEncrypt / handleDecrypt up to the await: the message added
\* and the adapter call issued (at most one)
HandleClick(cfg, operation) ==
    LET inputs  == GetInputValues
        payload == IF operation = "encrypt" THEN inputs.encryptData ELSE inputs.decryptData
    IN  IF inputs.keyHex = <<>> \/ inputs.ivHex = <<>>
        THEN [messages |-> AddMessage(Messages, "error",
                              <<"Chave AES e IV sao obrigatorios. Use Gerar Chaves se necessario.">>),
              issued |-> <<>>]
        ELSE IF payload = <<>>
        THEN [messages |-> AddMessage(Messages, "error",
                              <<IF operation = "encrypt" THEN "Digite o texto a ser encriptado."
                                ELSE "Digite os dados a serem decriptados.">>),
              issued |-> <<>>]
        ELSE [messages |-> AddMessage(Messages, "info",
                              <<IF operation = "encrypt" THEN "Encriptando dados..."
                                ELSE "Decriptando dados...">>),
              issued |-> <<NewCall(cfg, "ui", operation, payload, inputs.keyHex,
                                   inputs.ivHex, FALSE, <<>>)>>]

\* a faulty variant: the handler that empties the target slot when the call failed
HandleSettledClearsOnError(c) ==
    IF c.outcome.threw
    THEN [encryptInput |-> IF c.op = "decrypt" THEN <<>> ELSE encryptInput,
          decryptInput |-> IF c.op = "encrypt" THEN <<>> ELSE decryptInput,
          messages |-> AddMessage(Messages, "error", c.outcome.msg)]
    ELSE IF c.op = "encrypt"
    THEN [encryptInput |-> encryptInput,
          decryptInput |-> SetContentEditableValue(c.outcome.val),
          messages |-> AddMessage(Messages, "success", <<"Dados encriptados com sucesso!">>)]
    ELSE [encryptInput |-> SetContentEditableValue(c.outcome.val),
          decryptInput |-> decryptInput,
          messages |-> AddMessage(Messages, "success", <<"Dados decriptados com sucesso!">>)]

\* AESCryptoManager.handleEncrypt / handleDecrypt after the await: the result goes to
\* the opposite slot with a success message, or the caught message is shown
HandleSettled(c) ==
    IF c.outcome.threw
    THEN [encryptInput |-> encryptInput, decryptInput |-> decryptInput,
          messages |-> AddMessage(Messages, "error", c.outcome.msg)]
    ELSE IF c.op = "encrypt"
    THEN [encryptInput |-> encryptInput,
          decryptInput |-> SetContentEditableValue(c.outcome.val),
          messages |-> AddMessage(Messages, "success", <<"Dados encriptados com sucesso!">>)]
    ELSE [encryptInput |-> SetContentEditableValue(c.outcome.val),
          decryptInput |-> decryptInput,
          messages |-> AddMessage(Messages, "success", <<"Dados decriptados com sucesso!">>)]

\* AESCryptoManager.encryptData / decryptData: an omitted key or IV is taken from the
\* fields; the call is issued unless one of them is still missing
ManagerCall(cfg, operation, payload, keyHex, ivHex) ==
    LET inputs == GetInputValues
        finalKeyHex == IF keyHex # <<>> THEN keyHex ELSE inputs.keyHex
        finalIvHex  == IF ivHex # <<>> THEN ivHex ELSE inputs.ivHex
    IN  IF finalKeyHex = <<>> \/ finalIvHex = <<>> THEN <<>>
        ELSE <<NewCall(cfg, "api", operation, payload, finalKeyHex, finalIvHex, FALSE, <<>>)>>

(***************************************************************************)
(* Inputs                                                                  *)
(***************************************************************************)

\* bounds of the inputs
MaxStrLen == 3      \* longest string handed to a codec function
MaxBytesLen == 2    \* longest byte array handed to uint8ArrayToHex
MaxPad == 1         \* most white space before / after a key or an IV
MaxSkew == 2        \* how far a key or IV length strays from a valid one, in characters

\* '0', 'a', 'F', 'g', ' ', '\n'
CodecChars == {48, 97, 70, 103, 32, 10}
CodecStrings == SeqsUpTo(CodecChars, MaxStrLen)
CodecByteArrays == SeqsUpTo({0, 10, 171, 255}, MaxBytesLen)

\* n hexadecimal digits, not all alike
HexPattern(n, seed) == [i \in 1..n |-> HexChar((i * seed + seed) % 16)]

Padded(body, lead, trail) == Rep(32, lead) \o body \o Rep(32, trail)

Lengths(bytes) == {n \in {2 * bytes + d : d \in (0 - MaxSkew)..MaxSkew} : n >= 0}

\* bodies of n characters: lowercase digits, uppercase digits, and one with a 'g'
Bodies(n) ==
    {HexPattern(n, 1), [i \in 1..n |-> IF i % 2 = 1 THEN 67 ELSE 48 + (i % 10)]}
    \cup (IF n = 0 THEN {} ELSE {[HexPattern(n, 1) EXCEPT ![1] = 103]})

KeyInputs ==
    {Padded(b, l, t) : b \in UNION {Bodies(n) : n \in {0} \cup UNION {Lengths(k) : k \in {16, 24, 32}}},
                       l \in 0..MaxPad, t \in 0..MaxPad}

IVInputs(cfg) ==
    {Padded(b, l, t) : b \in UNION {Bodies(n) : n \in {0} \cup Lengths(cfg.ivLength)},
                       l \in 0..MaxPad, t \in 0..MaxPad}

\* keys and IVs written as plain hexadecimal strings of a valid size
PlainKeys == {HexPattern(2 * k, 3) : k \in {16, 24, 32}}
PlainIVs(cfg) == {HexPattern(2 * cfg.ivLength, 5)}

\* "", "hi", "h" U+00E9, U+FEFF "h", "h" U+FEFF, a surrogate pair, an unpaired
\* surrogate, " ", U+FEFF
Plaintexts ==
    {<<>>, <<104, 105>>, <<104, 233>>, <<65279, 104>>, <<104, 65279>>,
     <<55357, 56832>>, <<104, 55357>>, <<32>>, <<65279>>}

\* "", "zz", "abc", one block of zero bytes, 17 bytes
Ciphertexts == {<<>>, <<122, 122>>, <<97, 98, 99>>, Rep(48, 32), Rep(49, 34)}

\* the (payload, key, IV) triples a direct caller passes to encrypt
EncryptInputs(cfg) ==
    ({<<>>, <<104, 105>>} \X KeyInputs \X PlainIVs(cfg))
    \cup ({<<104, 105>>} \X PlainKeys \X IVInputs(cfg))
    \cup (Plaintexts \X PlainKeys \X PlainIVs(cfg))

\* the (payload, key, IV) triples a direct caller passes to decrypt
DecryptInputs(cfg) ==
    ({Rep(48, 32)} \X KeyInputs \X PlainIVs(cfg))
    \cup ({Rep(48, 32)} \X PlainKeys \X IVInputs(cfg))
    \cup (Ciphertexts \X PlainKeys \X PlainIVs(cfg))

\* the configurations an AESCrypto is constructed with
Configs ==
    {DefaultConfig,
     [algorithm |-> "AES-CBC", keyLength |-> 192, ivLength |-> 16],
     [algorithm |-> "AES-CBC", keyLength |-> 256, ivLength |-> 16],
     [algorithm |-> "AES-GCM", keyLength |-> 256, ivLength |-> 12],
     [algorithm |-> "AES-GCM", keyLength |-> 128, ivLength |-> 0]}

Seeds == {0, 1, 2}

NoPair == [key |-> <<>>, iv |-> <<>>]
\* the page once main.ts has run on a platform that offers crypto.subtle, TextEncoder
\* and TextDecoder, in a loaded document that holds all elements: one manager
\*   subtle, textCodec  what the platform offers
\*   elements           whether the document holds all the elements of the application
\*   readyState         document.readyState
\*   moduleRan          whether the top level of main.ts has run
\*   initListeners      DOMContentLoaded listeners that call initializeAESCryptoApp
\*   noticeListener     whether the DOMContentLoaded listener that shows the
\*                      incompatibility message is registered
\*   counters           messageCounter of the UIManager of each manager constructed,
\*                      but for the page's first, which is the variable messageCounter
\*   managers           AESCryptoManager instances constructed, each with its click
\*                      listeners on the three buttons
\*   notices            how many times the incompatibility message was written
\*   reinits            calls of reinitializeApp
\*   removals           manual calls of removeMessage
\*   issued             the ids addMessage has returned
\*   now                Date.now()
\*   hovered, focused   whether the pointer is over the element that bears a tooltip,
\*                      and whether it has the focus
\*   showTimeout, hideTimeout   the closure variables of setupTooltipEvents for that
\*                      element: a timer handle, or 0 for null
\*   handles            the last handle setTimeout returned for a tooltip timer
\*   tooltip            whether this.tooltipElement is set (a tooltip is displayed)
\*   tipEvents          events dispatched on the element so far
LoadedPage ==
    [subtle |-> TRUE, textCodec |-> TRUE, elements |-> TRUE, readyState |-> "complete",
     moduleRan |-> TRUE, initListeners |-> 0, noticeListener |-> FALSE, managers |-> 1,
     counters |-> <<>>, notices |-> 0, reinits |-> 0, removals |-> 0, issued |-> <<>>,
     now |-> 0, hovered |-> FALSE, focused |-> FALSE, showTimeout |-> 0, hideTimeout |-> 0,
     handles |-> 0, tooltip |-> FALSE, tipEvents |-> 0]
NoProbe == [fn |-> "none", kind |-> "none", arg |-> <<>>, threw |-> FALSE, msg |-> <<>>,
            val |-> <<>>, bool |-> FALSE, origin |-> <<>>]

(***************************************************************************)
(* Specification of the codec: CryptoUtils functions applied to an input   *)
(***************************************************************************)

InitCodec ==
    /\ probe \in {[NoProbe EXCEPT !.kind = "string", !.arg = x] : x \in CodecStrings}
                 \cup {[NoProbe EXCEPT !.kind = "bytes", !.arg = x] : x \in CodecByteArrays}
    /\ config = DefaultConfig
    /\ calls = <<>>
    /\ generated = NoPair
    /\ aesKey = <<>> /\ iv = <<>> /\ encryptInput = <<>> /\ decryptInput = <<>>
    /\ report = <<>>
    /\ messageCounter = 0
    /\ timers = <<>>
    /\ page = LoadedPage

UnchangedButProbe ==
    UNCHANGED <<config, calls, generated, aesKey, iv, encryptInput, decryptInput,
                report, messageCounter, timers, page>>

CallIsValidHex ==
    /\ probe.fn = "none" /\ probe.kind = "string"
    /\ probe' = [probe EXCEPT !.fn = "isValidHex", !.bool = IsValidHex(probe.arg)]
    /\ UnchangedButProbe

CallLegacyIsValidHex ==
    /\ probe.fn = "none" /\ probe.kind = "string"
    /\ probe' = [probe EXCEPT !.fn = "legacyIsValidHex", !.bool = LegacyIsValidHex(probe.arg)]
    /\ UnchangedButProbe

CallHexToUint8Array ==
    /\ probe.fn = "none" /\ probe.kind = "string"
    /\ LET r == HexToUint8Array(probe.arg)
       IN  probe' = [probe EXCEPT !.fn = "hexToUint8Array", !.threw = r.threw,
                                  !.msg = r.msg, !.val = r.val]
    /\ UnchangedButProbe

CallUint8ArrayToHex ==
    /\ probe.fn = "none" /\ probe.kind = "bytes"
    /\ probe' = [probe EXCEPT !.fn = "uint8ArrayToHex", !.val = Uint8ArrayToHex(probe.arg)]
    /\ UnchangedButProbe

\* hexToUint8Array applied to what uint8ArrayToHex returned
CallHexToUint8ArrayOnHex ==
    /\ probe.fn = "uint8ArrayToHex"
    /\ LET r == HexToUint8Array(probe.val)
       IN  probe' = [probe EXCEPT !.fn = "roundTrip", !.origin = probe.arg,
                                  !.arg = probe.val, !.threw = r.threw,
                                  !.msg = r.msg, !.val = r.val]
    /\ UnchangedButProbe

NextCodec ==
    \/ CallIsValidHex
    \/ CallLegacyIsValidHex
    \/ CallHexToUint8Array
    \/ CallUint8ArrayToHex
    \/ CallHexToUint8ArrayOnHex

SpecCodec == InitCodec /\ [][NextCodec]_vars

(***************************************************************************)
(* Specification of the adapter: one AESCrypto instance and a caller that  *)
(* awaits each call before it issues the next                              *)
(***************************************************************************)

Init ==
    /\ probe = NoProbe
    /\ config \in Configs
    /\ calls = <<>>
    /\ generated = NoPair
    /\ aesKey = <<>> /\ iv = <<>> /\ encryptInput = <<>> /\ decryptInput = <<>>
    /\ report = <<>>
    /\ messageCounter = 0
    /\ timers = <<>>
    /\ page = LoadedPage

UnchangedUI ==
    UNCHANGED <<aesKey, iv, encryptInput, decryptInput, report, messageCounter, timers, page>>

\* encrypt(plainText, keyHex, ivHex) with the caller's own key and IV
ApiEncrypt ==
    /\ calls = <<>> /\ generated = NoPair
    /\ \E in \in EncryptInputs(config) :
          calls' = <<NewCall(config, "api", "encrypt", in[1], in[2], in[3], FALSE, <<>>)>>
    /\ UNCHANGED <<probe, config, generated>> /\ UnchangedUI

\* decrypt(encryptedHex, keyHex, ivHex) with the caller's own key and IV
ApiDecrypt ==
    /\ calls = <<>> /\ generated = NoPair
    /\ \E in \in DecryptInputs(config) :
          calls' = <<NewCall(config, "api", "decrypt", in[1], in[2], in[3], FALSE, <<>>)>>
    /\ UNCHANGED <<probe, config, generated>> /\ UnchangedUI

\* decrypt applied to what an encrypt call returned, with that call's key and IV
ApiDecryptResult ==
    /\ Len(calls) = 1
    /\ calls[1].op = "encrypt" /\ calls[1].pc = "settled" /\ ~calls[1].outcome.threw
    /\ calls' = <<NewCall(config, "api", "decrypt", calls[1].outcome.val, calls[1].keyHex,
                          calls[1].ivHex, TRUE, calls[1].payload)>>
    /\ UNCHANGED <<probe, config, generated>> /\ UnchangedUI

\* generateKeyAndIV()
ApiGenerateKeyAndIV ==
    /\ calls = <<>> /\ generated = NoPair
    /\ \E ks \in Seeds, is \in Seeds : generated' = GenerateKeyAndIV(config, ks, is)
    /\ UNCHANGED <<probe, config, calls>> /\ UnchangedUI

\* encrypt with the key and IV generateKeyAndIV returned
ApiEncryptGenerated ==
    /\ calls = <<>> /\ generated # NoPair
    /\ \E p \in {<<104, 105>>, <<104, 233>>} :
          calls' = <<NewCall(config, "api", "encrypt", p, generated.key, generated.iv,
                             FALSE, <<>>)>>
    /\ UNCHANGED <<probe, config, generated>> /\ UnchangedUI

\* the promise of crypto.subtle.importKey settles
ImportKeySettles ==
    /\ \E i \in 1..Len(calls) :
          /\ calls[i].pc = "importKey"
          /\ calls' = [calls EXCEPT ![i] = AfterImportKey(config, calls[i])]
    /\ UNCHANGED <<probe, config, generated>> /\ UnchangedUI

\* the promise of crypto.subtle.encrypt / decrypt settles
CipherSettles ==
    /\ \E i \in 1..Len(calls) :
          /\ calls[i].pc = "cipher"
          /\ calls' = [calls EXCEPT ![i] = AfterCipher(config, calls[i])]
    /\ UNCHANGED <<probe, config, generated>> /\ UnchangedUI

\* the caller's await resumes with the outcome of the call
ApiReturn ==
    /\ Len(calls) = 1 /\ calls[1].pc = "settled"
    /\ calls' = <<>>
    /\ UNCHANGED <<probe, config, generated>> /\ UnchangedUI

Next ==
    \/ ApiEncrypt
    \/ ApiDecrypt
    \/ ApiDecryptResult
    \/ ApiGenerateKeyAndIV
    \/ ApiEncryptGenerated
    \/ ImportKeySettles
    \/ CipherSettles
    \/ ApiReturn

Spec == Init /\ [][Next]_vars

(***************************************************************************)
(* Specification of the application: the page as initializeAESCryptoApp    *)
(* sets it up (an AESCryptoManager with the default configuration), a user *)
(* who edits the fields and clicks the buttons, and a script that calls    *)
(* the manager's encryptData / decryptData                                 *)
(***************************************************************************)

\* bounds of the application's runs
MaxCalls == 1       \* adapter calls issued
MaxMessages == 2    \* messages added

\* what the user types as key and IV: nothing, a 16-byte key between spaces with a
\* 16-byte IV, a 15-byte key with a 16-byte IV
TypedKeyIVs ==
    {<<<<>>, <<>>>>,
     <<Padded(HexPattern(32, 3), 1, 1), HexPattern(32, 5)>>,
     <<HexPattern(30, 3), HexPattern(32, 5)>>}
\* "", "h\ni"
TypedPlaintexts == {<<>>, <<104, 10, 105>>}
\* what encrypt returns for "a\n\n\nb" under the 16-byte key and IV the user types
CiphertextOfBlankLines ==
    Uint8ArrayToHex(SubtleEncrypt(DefaultConfig.algorithm,
                                  HexToUint8Array(HexPattern(32, 5)).val,
                                  HexToUint8Array(HexPattern(32, 3)).val,
                                  TextToArrayBuffer(<<97, 10, 10, 10, 98>>)).val)
\* "", "zz", one block of zero bytes, the ciphertext of "a\n\n\nb"
TypedCiphertexts == {<<>>, <<122, 122>>, Rep(48, 32), CiphertextOfBlankLines}
\* the (operation, payload, key, IV) a script passes to encryptData / decryptData
ScriptInputs ==
    {<<"encrypt", <<104, 105>>, HexPattern(32, 3), HexPattern(32, 5)>>,
     <<"encrypt", <<>>, HexPattern(32, 3), HexPattern(32, 5)>>,
     <<"encrypt", <<104, 105>>, <<122, 122>>, HexPattern(32, 5)>>,
     <<"encrypt", <<104, 105>>, <<>>, <<>>>>,
     <<"decrypt", <<>>, HexPattern(32, 3), HexPattern(32, 5)>>,
     <<"decrypt", <<122, 122>>, HexPattern(32, 3), HexPattern(32, 5)>>,
     <<"decrypt", Rep(48, 32), HexPattern(32, 3), <<122, 122>>>>,
     <<"decrypt", Rep(48, 32), HexPattern(32, 3), HexPattern(30, 5)>>,
     <<"decrypt", Rep(48, 32), Padded(HexPattern(30, 3), 1, 1), HexPattern(32, 5)>>}
\* the random fillings drawn for the generated key and IV
GenerateDraws == {<<0, 1>>, <<2, 2>>}

InitApp ==
    /\ probe = NoProbe
    /\ config = DefaultConfig
    /\ calls = <<>>
    /\ generated = NoPair
    /\ aesKey = <<>> /\ iv = <<>> /\ encryptInput = <<>> /\ decryptInput = <<>>
    /\ report = <<>>
    /\ messageCounter = 0
    /\ timers = <<>>
    /\ page = LoadedPage

UnchangedAdapter == UNCHANGED <<probe, config, generated, page>>

\* the user edits the key and IV fields
TypeKeyAndIV ==
    /\ \E v \in TypedKeyIVs : aesKey' = v[1] /\ iv' = v[2]
    /\ UNCHANGED <<calls, encryptInput, decryptInput, report, messageCounter, timers>>
    /\ UnchangedAdapter

\* the user edits the encryption slot; its input listener normalizes the content
TypeEncryptInput ==
    /\ \E v \in TypedPlaintexts : encryptInput' = SetContentEditableValue(v)
    /\ UNCHANGED <<calls, aesKey, iv, decryptInput, report, messageCounter, timers>>
    /\ UnchangedAdapter

\* the user edits the decryption slot; its input listener normalizes the content
TypeDecryptInput ==
    /\ \E v \in TypedCiphertexts : decryptInput' = SetContentEditableValue(v)
    /\ UNCHANGED <<calls, aesKey, iv, encryptInput, report, messageCounter, timers>>
    /\ UnchangedAdapter

\* click on #generateKey
ClickGenerateKey ==
    /\ messageCounter < MaxMessages
    /\ \E d \in GenerateDraws :
          LET h == HandleGenerateKey(config, d[1], d[2])
          IN  aesKey' = h.aesKey /\ iv' = h.iv /\ SetMessages(h.messages)
    /\ UNCHANGED <<calls, encryptInput, decryptInput>>
    /\ UnchangedAdapter

\* click on #encryptButton or #decryptButton
ClickCipher(operation) ==
    /\ Len(calls) < MaxCalls /\ messageCounter + 2 <= MaxMessages
    /\ LET h == HandleClick(config, operation)
       IN  calls' = calls \o h.issued /\ SetMessages(h.messages)
    /\ UNCHANGED <<aesKey, iv, encryptInput, decryptInput>>
    /\ UnchangedAdapter

ClickEncrypt == ClickCipher("encrypt")

ClickDecrypt == ClickCipher("decrypt")

\* the handler that awaits call i resumes
HandlerResumes ==
    /\ \E i \in 1..Len(calls) :
          /\ calls[i].src = "ui" /\ calls[i].pc = "settled"
          /\ LET h == HandleSettled(calls[i])
             IN  /\ encryptInput' = h.encryptInput
                 /\ decryptInput' = h.decryptInput
                 /\ SetMessages(h.messages)
          /\ calls' = [calls EXCEPT ![i].pc = "done"]
    /\ UNCHANGED <<aesKey, iv>>
    /\ UnchangedAdapter

\* a script calls encryptData / decryptData of the manager
ScriptCalls ==
    /\ Len(calls) < MaxCalls
    /\ \E in \in ScriptInputs :
          LET issued == ManagerCall(config, in[1], in[2], in[3], in[4])
          IN  issued # <<>> /\ calls' = calls \o issued
    /\ UNCHANGED <<aesKey, iv, encryptInput, decryptInput, report, messageCounter, timers>>
    /\ UnchangedAdapter

\* a script calls encrypt / decrypt of the adapter it gets from getAESCrypto()
ScriptCallsAdapter ==
    /\ Len(calls) < MaxCalls
    /\ \E in \in ScriptInputs :
          calls' = calls \o <<NewCall(config, "api", in[1], in[2], in[3], in[4], FALSE, <<>>)>>
    /\ UNCHANGED <<aesKey, iv, encryptInput, decryptInput, report, messageCounter, timers>>
    /\ UnchangedAdapter

\* the script's await of call i resumes
ScriptResumes ==
    /\ \E i \in 1..Len(calls) :
          /\ calls[i].src = "api" /\ calls[i].pc = "settled"
          /\ calls' = [calls EXCEPT ![i].pc = "done"]
    /\ UNCHANGED <<aesKey, iv, encryptInput, decryptInput, report, messageCounter, timers>>
    /\ UnchangedAdapter

\* the fade-in timer of a message fires (10 ms after addMessage)
FadeInTimer ==
    /\ \E n \in 1..Len(timers) :
          /\ timers[n].kind = "fadeIn"
          /\ report' = [i \in 1..Len(report) |->
                           IF report[i].el = timers[n].el THEN [report[i] EXCEPT !.show = TRUE]
                           ELSE report[i]]
          /\ timers' = WithoutTimer(n)
    /\ UNCHANGED <<calls, aesKey, iv, encryptInput, decryptInput, messageCounter>>
    /\ UnchangedAdapter

\* the expiry timer of a message fires (after its duration, which exceeds 10 ms) and
\* calls removeMessage
ExpiryTimer ==
    /\ \E n \in 1..Len(timers) :
          /\ timers[n].kind = "expiry"
          /\ \A m \in 1..Len(timers) :
                ~(timers[m].kind = "fadeIn" /\ timers[m].el = timers[n].el)
          /\ LET r == RemoveMessage(report, WithoutTimer(n), timers[n].id)
             IN  report' = r.report /\ timers' = r.timers
    /\ UNCHANGED <<calls, aesKey, iv, encryptInput, decryptInput, messageCounter>>
    /\ UnchangedAdapter

\* the timer removeMessage scheduled fires: the element is detached if still attached
DetachTimer ==
    /\ \E n \in 1..Len(timers) :
          /\ timers[n].kind = "detach"
          /\ report' = SelectSeq(report, LAMBDA m : m.el # timers[n].el)
          /\ timers' = WithoutTimer(n)
    /\ UNCHANGED <<calls, aesKey, iv, encryptInput, decryptInput, messageCounter>>
    /\ UnchangedAdapter

NextApp ==
    \/ TypeKeyAndIV
    \/ TypeEncryptInput
    \/ TypeDecryptInput
    \/ ClickGenerateKey
    \/ ClickEncrypt
    \/ ClickDecrypt
    \/ HandlerResumes
    \/ ScriptCalls
    \/ ScriptCallsAdapter
    \/ ScriptResumes
    \/ ImportKeySettles
    \/ CipherSettles
    \/ FadeInTimer
    \/ ExpiryTimer
    \/ DetachTimer

SpecApp == InitApp /\ [][NextApp]_vars

(***************************************************************************)
(* Specification of overlapping calls: one AESCrypto instance whose caller *)
(* issues a call while another is in flight (as Promise.all over two calls *)
(* does)                                                                   *)
(***************************************************************************)

MaxInFlight == 2    \* calls issued on the instance

ConcKeys == {HexPattern(32, 3), HexPattern(48, 3)}
ConcIVs == {HexPattern(32, 5), HexPattern(32, 7)}

\* "hi", "a", and with a key of 15 bytes
ConcEncryptInputs ==
    ({<<104, 105>>, <<97>>} \X ConcKeys \X ConcIVs)
    \cup {<<<<104, 105>>, HexPattern(30, 3), HexPattern(32, 5)>>}

\* what encrypt returns for "hi" under the first key and IV, one block of zero bytes,
\* and "zz"
ConcDecryptInputs ==
    ({Uint8ArrayToHex(SubtleEncrypt(DefaultConfig.algorithm,
                                    HexToUint8Array(HexPattern(32, 5)).val,
                                    HexToUint8Array(HexPattern(32, 3)).val,
                                    TextToArrayBuffer(<<104, 105>>)).val),
      Rep(48, 32)} \X ConcKeys \X ConcIVs)
    \cup {<<<<122, 122>>, HexPattern(32, 3), HexPattern(32, 5)>>}

InitConc ==
    /\ probe = NoProbe
    /\ config = DefaultConfig
    /\ calls = <<>>
    /\ generated = NoPair
    /\ aesKey = <<>> /\ iv = <<>> /\ encryptInput = <<>> /\ decryptInput = <<>>
    /\ report = <<>>
    /\ messageCounter = 0
    /\ timers = <<>>
    /\ page = LoadedPage

\* encrypt(plainText, keyHex, ivHex), whatever the other calls have come to
ConcEncrypt ==
    /\ Len(calls) < MaxInFlight
    /\ \E in \in ConcEncryptInputs :
          calls' = Append(calls, NewCall(config, "api", "encrypt", in[1], in[2], in[3],
                                         FALSE, <<>>))
    /\ UNCHANGED <<probe, config, generated>> /\ UnchangedUI

\* decrypt(encryptedHex, keyHex, ivHex), whatever the other calls have come to
ConcDecrypt ==
    /\ Len(calls) < MaxInFlight
    /\ \E in \in ConcDecryptInputs :
          calls' = Append(calls, NewCall(config, "api", "decrypt", in[1], in[2], in[3],
                                         FALSE, <<>>))
    /\ UNCHANGED <<probe, config, generated>> /\ UnchangedUI

NextConc ==
    \/ ConcEncrypt
    \/ ConcDecrypt
    \/ ImportKeySettles
    \/ CipherSettles

SpecConc == InitConc /\ [][NextConc]_vars

(***************************************************************************)
(* Specification of the messages: one UIManager whose addMessage,          *)
(* removeMessage and clearAllMessages are called in any order, and the     *)
(* timers they schedule                                                    *)
(***************************************************************************)

MaxAdded == 2       \* calls of addMessage
MaxRemovals == 2    \* calls of removeMessage by the caller
MaxNow == 1         \* how far Date.now() advances

\* a message of two words, one of ten characters in five words, one of a hundred
\* characters in one word
UiMessages ==
    {<<"info", <<"Encriptando dados...">>>>,
     <<"error", <<"a b c d ef">>>>,
     <<"success", <<"xxxxxxxxxxxxxxxxxxxxxxxxxxxxxxxxxxxxxxxxxxxxxxxxxxxxxxxxxxxxxxxxxxxxxxxxxxxxxxxxxxxxxxxxxxxxxxxxxxxx">>>>}

InitUI ==
    /\ probe = NoProbe
    /\ config = DefaultConfig
    /\ calls = <<>>
    /\ generated = NoPair
    /\ aesKey = <<>> /\ iv = <<>> /\ encryptInput = <<>> /\ decryptInput = <<>>
    /\ report = <<>>
    /\ messageCounter = 0
    /\ timers = <<>>
    /\ page = LoadedPage

UnchangedButMessages ==
    UNCHANGED <<probe, config, calls, generated, aesKey, iv, encryptInput, decryptInput>>

\* addMessage(message, type); the caller keeps the id it returns
UiAddMessage ==
    /\ messageCounter < MaxAdded
    /\ \E m \in UiMessages :
          LET r == AddMessage(Messages, m[1], m[2])
          IN  /\ SetMessages(r)
              /\ page' = [page EXCEPT !.issued = Append(@, r.id)]
    /\ UnchangedButMessages

\* removeMessage(id) called with an id addMessage has returned
UiRemoveMessage ==
    /\ page.removals < MaxRemovals
    /\ \E k \in 1..Len(page.issued) :
          LET r == RemoveMessage(report, timers, page.issued[k])
          IN  report' = r.report /\ timers' = r.timers
    /\ page' = [page EXCEPT !.removals = @ + 1]
    /\ UNCHANGED messageCounter
    /\ UnchangedButMessages

\* clearAllMessages(): the report region is emptied; the timers stay scheduled
UiClearAllMessages ==
    /\ report # <<>>
    /\ report' = <<>>
    /\ UNCHANGED <<messageCounter, timers, page>>
    /\ UnchangedButMessages

\* a millisecond passes
Tick ==
    /\ page.now < MaxNow
    /\ page' = [page EXCEPT !.now = @ + 1]
    /\ UNCHANGED <<report, messageCounter, timers>>
    /\ UnchangedButMessages

NextUI ==
    \/ UiAddMessage
    \/ UiRemoveMessage
    \/ UiClearAllMessages
    \/ Tick
    \/ FadeInTimer
    \/ ExpiryTimer
    \/ DetachTimer

SpecUI == InitUI /\ [][NextUI]_vars

\* the timers the platform has accepted eventually fire
SpecUIFair ==
    /\ InitUI /\ [][NextUI]_vars
    /\ WF_vars(FadeInTimer) /\ WF_vars(ExpiryTimer) /\ WF_vars(DetachTimer)

(***************************************************************************)
(* Specification of the page load: main.ts run in a document at any point  *)
(* of its loading, on a platform that may lack crypto.subtle or            *)
(* TextEncoder / TextDecoder; reinitializeApp called from a script; clicks *)
(* on #generateKey                                                         *)
(***************************************************************************)

MaxReinits == 2     \* calls of reinitializeApp
MaxClicks == 1      \* clicks on #generateKey

\* checkBrowserCompatibility
CheckBrowserCompatibility(pg) == pg.subtle /\ pg.textCodec

\* the <div class="message error"> written into #report by innerHTML: it has no id
NoticeElement(n, text) ==
    [el |-> <<0, n>>, id |-> <<0, 0>>, type |-> "error", text |-> text,
     show |-> FALSE, fadeOut |-> FALSE]

IncompatibilityText ==
    <<"Seu navegador nao suporta os recursos necessarios para esta aplicacao.">>

\* initializeAESCryptoApp on the page pg with the report region rep: while the document
\* is loading it registers itself for DOMContentLoaded; with an element missing (one
\* other than #report) it replaces the content of #report by the error; otherwise it
\* constructs an AESCryptoManager, whose constructor registers the click listeners
InitializeAESCryptoApp(pg, rep) ==
    IF pg.readyState = "loading"
    THEN [page |-> [pg EXCEPT !.initListeners = @ + 1], report |-> rep]
    ELSE IF ~pg.elements
    THEN [page |-> pg,
          report |-> <<NoticeElement(0, <<"Erro ao inicializar a aplicacao: ",
                                          "Elementos DOM nao encontrados">>)>>]
    ELSE [page |-> [pg EXCEPT !.managers = @ + 1,
                              !.counters = IF pg.managers = 0 THEN @ ELSE Append(@, 0)],
          report |-> rep]

\* the listeners of DOMContentLoaded that call initializeAESCryptoApp, run one by one
RECURSIVE RunInitListeners(_, _)
RunInitListeners(n, st) ==
    IF n = 0 THEN st
    ELSE RunInitListeners(n - 1, InitializeAESCryptoApp(st.page, st.report))

\* the listener of DOMContentLoaded the top level registers on an incompatible platform
ShowIncompatibility(pg, rep) ==
    [page |-> [pg EXCEPT !.notices = @ + 1],
     report |-> <<NoticeElement(pg.notices + 1, IncompatibilityText)>>]

InitLoad ==
    /\ probe = NoProbe
    /\ config = DefaultConfig
    /\ calls = <<>>
    /\ generated = NoPair
    /\ aesKey = <<>> /\ iv = <<>> /\ encryptInput = <<>> /\ decryptInput = <<>>
    /\ report = <<>>
    /\ messageCounter = 0
    /\ timers = <<>>
    /\ page \in {[LoadedPage EXCEPT !.subtle = s, !.textCodec = t, !.elements = e,
                                    !.readyState = "loading", !.moduleRan = FALSE,
                                    !.managers = 0] : s, t, e \in BOOLEAN}

UnchangedByLoad ==
    UNCHANGED <<probe, config, calls, generated, encryptInput, decryptInput>>

\* the parser reaches the end of the document: readyState becomes "interactive"
ParseEnds ==
    /\ page.readyState = "loading"
    /\ page' = [page EXCEPT !.readyState = "interactive"]
    /\ UNCHANGED <<aesKey, iv, report, messageCounter, timers>>
    /\ UnchangedByLoad

\* DOMContentLoaded fires, once: its listeners run in the order of their registration
\* (the top level's first). From here on readyState "complete" stands for every
\* moment after the event.
DomContentLoaded ==
    /\ page.readyState = "interactive"
    /\ LET fired   == [page |-> page, report |-> report]
           noticed == IF page.noticeListener
                      THEN ShowIncompatibility(fired.page, fired.report) ELSE fired
           st      == RunInitListeners(page.initListeners, noticed)
       IN  /\ page' = [st.page EXCEPT !.readyState = "complete"]
           /\ report' = st.report
    /\ UNCHANGED <<aesKey, iv, messageCounter, timers>>
    /\ UnchangedByLoad

\* the top level of main.ts runs (lines 368-392), at whatever point of the loading the
\* script is evaluated
ModuleRuns ==
    /\ ~page.moduleRan
    /\ LET ran == [page EXCEPT !.moduleRan = TRUE]
           st  == IF CheckBrowserCompatibility(page)
                  THEN InitializeAESCryptoApp(ran, report)
                  ELSE [page |-> [ran EXCEPT !.noticeListener = TRUE], report |-> report]
       IN  page' = st.page /\ report' = st.report
    /\ UNCHANGED <<aesKey, iv, messageCounter, timers>>
    /\ UnchangedByLoad

\* a script calls window.reinitializeApp()
CallReinitializeApp ==
    /\ page.moduleRan /\ page.reinits < MaxReinits
    /\ LET st == InitializeAESCryptoApp([page EXCEPT !.reinits = @ + 1], report)
       IN  page' = st.page /\ report' = st.report
    /\ UNCHANGED <<aesKey, iv, messageCounter, timers>>
    /\ UnchangedByLoad

\* messageCounter of the UIManager of the k-th manager constructed
ManagerCounter(k) == IF k = 1 THEN messageCounter ELSE page.counters[k - 1]

\* showSuccess by the managers k, k + 1, ... in turn, each through its own UIManager
RECURSIVE ShowByEachManager(_, _, _)
ShowByEachManager(k, st, text) ==
    IF k > page.managers THEN st
    ELSE LET r == AddMessage([report |-> st.report, messageCounter |-> ManagerCounter(k),
                              timers |-> st.timers, owner |-> k], "success", text)
         IN  ShowByEachManager(k + 1, [report |-> r.report, timers |-> r.timers,
                                       issued |-> Append(st.issued, r.id)], text)

\* click on #generateKey: the click listener of every manager constructed runs
\* handleGenerateKey, in the order of construction, within one millisecond
PageClickGenerateKey ==
    /\ page.managers >= 1 /\ messageCounter < MaxClicks
    /\ \E d \in GenerateDraws :
          LET pair == GenerateKeyAndIV(config, d[1], d[2])
          IN  aesKey' = pair.key /\ iv' = pair.iv
    /\ LET st == ShowByEachManager(1, [report |-> report, timers |-> timers,
                                       issued |-> page.issued],
                                   <<"Nova chave AES e IV gerados com sucesso!">>)
       IN  /\ report' = st.report
           /\ timers' = st.timers
           /\ page' = [page EXCEPT !.issued = st.issued,
                                   !.counters = [i \in 1..Len(@) |-> @[i] + 1]]
    /\ messageCounter' = messageCounter + 1
    /\ UnchangedByLoad

NextLoad ==
    \/ ParseEnds
    \/ DomContentLoaded
    \/ ModuleRuns
    \/ CallReinitializeApp
    \/ PageClickGenerateKey
    \/ FadeInTimer
    \/ ExpiryTimer
    \/ DetachTimer

SpecLoad == InitLoad /\ [][NextLoad]_vars

(***************************************************************************)
(* Specification of a tooltip: one element with a data-title attribute,    *)
(* the pointer and the focus entering and leaving it in any order, and the *)
(* timers its listeners schedule                                           *)
(***************************************************************************)

MaxTipEvents == 6   \* events dispatched on the element

\* UIManager.tooltipConfig as the constructor defaults it
ShowDelay == 500
HideDelay == 100

TipTimer(kind, handle, delay) ==
    [kind |-> kind, el |-> <<0, 0>>, id |-> <<handle>>, delay |-> delay]

\* clearTimeout(handle): the timer, if it is still pending, will not fire
ClearTimeout(tms, handle) == SelectSeq(tms, LAMBDA t : t.id # <<handle>>)

\* the listener showTooltip of setupTooltipEvents (mouseenter and focus): the pending
\* hide timer it knows is cleared and a show timer is set
TipShowListener(pg, tms) ==
    LET h == pg.handles + 1
    IN  [page |-> [pg EXCEPT !.hideTimeout = 0, !.showTimeout = h, !.handles = h],
         timers |-> Append(IF pg.hideTimeout # 0 THEN ClearTimeout(tms, pg.hideTimeout)
                           ELSE tms,
                           TipTimer("tipShow", h, ShowDelay))]

\* the listener hideTooltip of setupTooltipEvents (mouseleave and blur): the pending
\* show timer it knows is cleared and a hide timer is set
TipHideListener(pg, tms) ==
    LET h == pg.handles + 1
    IN  [page |-> [pg EXCEPT !.showTimeout = 0, !.hideTimeout = h, !.handles = h],
         timers |-> Append(IF pg.showTimeout # 0 THEN ClearTimeout(tms, pg.showTimeout)
                           ELSE tms,
                           TipTimer("tipHide", h, HideDelay))]

InitTip ==
    /\ probe = NoProbe
    /\ config = DefaultConfig
    /\ calls = <<>>
    /\ generated = NoPair
    /\ aesKey = <<>> /\ iv = <<>> /\ encryptInput = <<>> /\ decryptInput = <<>>
    /\ report = <<>>
    /\ messageCounter = 0
    /\ timers = <<>>
    /\ page = LoadedPage

UnchangedByTip ==
    UNCHANGED <<probe, config, calls, generated, aesKey, iv, encryptInput, decryptInput,
                report, messageCounter>>

\* the pointer enters the element
MouseEnter ==
    /\ page.tipEvents < MaxTipEvents /\ ~page.hovered
    /\ LET r == TipShowListener([page EXCEPT !.hovered = TRUE, !.tipEvents = @ + 1], timers)
       IN  page' = r.page /\ timers' = r.timers
    /\ UnchangedByTip

\* the pointer leaves the element
MouseLeave ==
    /\ page.tipEvents < MaxTipEvents /\ page.hovered
    /\ LET r == TipHideListener([page EXCEPT !.hovered = FALSE, !.tipEvents = @ + 1], timers)
       IN  page' = r.page /\ timers' = r.timers
    /\ UnchangedByTip

\* the element gets the focus
Focus ==
    /\ page.tipEvents < MaxTipEvents /\ ~page.focused
    /\ LET r == TipShowListener([page EXCEPT !.focused = TRUE, !.tipEvents = @ + 1], timers)
       IN  page' = r.page /\ timers' = r.timers
    /\ UnchangedByTip

\* the element loses the focus
Blur ==
    /\ page.tipEvents < MaxTipEvents /\ page.focused
    /\ LET r == TipHideListener([page EXCEPT !.focused = FALSE, !.tipEvents = @ + 1], timers)
       IN  page' = r.page /\ timers' = r.timers
    /\ UnchangedByTip

\* a show timer fires: showTooltip removes the tooltip displayed, if any, and displays
\* a new one
TipShowTimer ==
    /\ \E n \in 1..Len(timers) :
          /\ timers[n].kind = "tipShow"
          /\ timers' = WithoutTimer(n)
    /\ page' = [page EXCEPT !.tooltip = TRUE]
    /\ UnchangedByTip

\* a hide timer fires: hideTooltip removes the tooltip displayed, if any
TipHideTimer ==
    /\ \E n \in 1..Len(timers) :
          /\ timers[n].kind = "tipHide"
          /\ timers' = WithoutTimer(n)
    /\ page' = [page EXCEPT !.tooltip = FALSE]
    /\ UnchangedByTip

NextTip ==
    \/ MouseEnter
    \/ MouseLeave
    \/ Focus
    \/ Blur
    \/ TipShowTimer
    \/ TipHideTimer

SpecTip == InitTip /\ [][NextTip]_vars

(***************************************************************************)
(* Specification of the tooltip's position: positionTooltip applied to an  *)
(* element, a tooltip, a viewport and a scroll position                    *)
(***************************************************************************)

ViewportSide == 100     \* width and height of the viewport, in pixels
MaxScroll == 50         \* how far the page is scrolled, in pixels
\* UIManager.tooltipConfig.offset as the constructor defaults it
TooltipOffset == 8

Max(a, b) == IF a > b THEN a ELSE b
Min(a, b) == IF a < b THEN a ELSE b

\* UIManager.positionTooltip: the top and left it writes to the style of the tooltip,
\* which it makes position: fixed. The halves that centring yields are kept by
\* counting in half pixels: the result is twice the value of style.top / style.left.
\*   g.rect  getBoundingClientRect() of the element (top, left, width, height)
\*   g.tip   width and height of the tooltip
\*   g.scrollX, g.scrollY  window.scrollX / scrollY
PositionTooltip(g, preferredPosition) ==
    LET rect == g.rect
        bottom == rect.top + rect.height
        right == rect.left + rect.width
        offset == g.offset
        position ==
            IF preferredPosition # "auto" THEN preferredPosition
            ELSE IF rect.top > g.tip.height + offset THEN "top"
            ELSE IF g.viewport.height - bottom > g.tip.height + offset THEN "bottom"
            ELSE IF rect.left > g.tip.width + offset THEN "left"
            ELSE "right"
        top2 == CASE position = "top" -> 2 * (rect.top - g.tip.height - offset)
                  [] position = "bottom" -> 2 * (bottom + offset)
                  [] OTHER -> 2 * rect.top + (rect.height - g.tip.height)
        left2 == CASE position \in {"top", "bottom"} -> 2 * rect.left + (rect.width - g.tip.width)
                   [] position = "left" -> 2 * (rect.left - g.tip.width - offset)
                   [] OTHER -> 2 * (right + offset)
        clampedLeft == Max(2 * offset, Min(left2, 2 * (g.viewport.width - g.tip.width - offset)))
        clampedTop == Max(2 * offset, Min(top2, 2 * (g.viewport.height - g.tip.height - offset)))
    IN  [position |-> position,
         top2 |-> clampedTop + 2 * g.scrollY,
         left2 |-> clampedLeft + 2 * g.scrollX]

\* elements of 10 by 10 pixels at the corners, the edges and the middle of the
\* viewport, a small and a large tooltip, the page scrolled or not
Geometries ==
    {[rect |-> [top |-> t, left |-> l, width |-> 10, height |-> 10],
      tip |-> tip, viewport |-> [width |-> ViewportSide, height |-> ViewportSide],
      offset |-> TooltipOffset, scrollX |-> sx, scrollY |-> sy] :
        t \in {0, 45, ViewportSide - 10}, l \in {0, 45, ViewportSide - 10},
        tip \in {[width |-> 21, height |-> 10], [width |-> 60, height |-> 30]},
        sx \in {0, MaxScroll}, sy \in {0, MaxScroll}}

InitPos ==
    /\ probe \in {[NoProbe EXCEPT !.kind = "geometry", !.arg = g] : g \in Geometries}
    /\ config = DefaultConfig
    /\ calls = <<>>
    /\ generated = NoPair
    /\ aesKey = <<>> /\ iv = <<>> /\ encryptInput = <<>> /\ decryptInput = <<>>
    /\ report = <<>>
    /\ messageCounter = 0
    /\ timers = <<>>
    /\ page = LoadedPage

\* showTooltip displays the tooltip and positions it (tooltipConfig.position is 'auto')
CallPositionTooltip ==
    /\ probe.fn = "none" /\ probe.kind = "geometry"
    /\ probe' = [probe EXCEPT !.fn = "positionTooltip",
                              !.val = PositionTooltip(probe.arg, "auto")]
    /\ UnchangedButProbe

SpecPos == InitPos /\ [][CallPositionTooltip]_vars

(***************************************************************************)
(* Specification of overlapping encrypt actions: a valid key and IV in the *)
(* fields, the user editing the encryption slot and clicking the encrypt   *)
(* button again while earlier actions are in flight (the timers of the     *)
(* messages, which touch no field, are left pending)                       *)
(***************************************************************************)

\* "a", "b", "c"
RacePlaintexts == {<<97>>, <<98>>, <<99>>}

InitRace ==
    /\ probe = NoProbe
    /\ config = DefaultConfig
    /\ calls = <<>>
    /\ generated = NoPair
    /\ aesKey = HexPattern(32, 3) /\ iv = HexPattern(32, 5)
    /\ encryptInput \in RacePlaintexts /\ decryptInput = <<>>
    /\ report = <<>>
    /\ messageCounter = 0
    /\ timers = <<>>
    /\ page = LoadedPage

\* the user replaces the text of the encryption slot
RaceTypeEncryptInput ==
    /\ \E v \in RacePlaintexts : encryptInput' = v
    /\ UNCHANGED <<calls, aesKey, iv, decryptInput, report, messageCounter, timers>>
    /\ UnchangedAdapter

\* click on #encryptButton, whatever the earlier actions have come to
RaceClickEncrypt ==
    /\ Len(calls) < MaxInFlight
    /\ LET h == HandleClick(config, "encrypt")
       IN  calls' = calls \o h.issued /\ SetMessages(h.messages)
    /\ UNCHANGED <<aesKey, iv, encryptInput, decryptInput>>
    /\ UnchangedAdapter

NextRace ==
    \/ RaceTypeEncryptInput
    \/ RaceClickEncrypt
    \/ ImportKeySettles
    \/ CipherSettles
    \/ HandlerResumes

SpecRace == InitRace /\ [][NextRace]_vars

(***************************************************************************)
(* Specification of an editable region: a script, or a handler of the      *)
(* manager, sets the text of the encryption region of a UIManager and      *)
(* reads it back                                                           *)
(***************************************************************************)

\* longest text written to a region
MaxTextLen == 5

\* texts of '<', 'b', '>' and '/' one character shorter, "&", "a&b", "&amp;", "1<2"
MarkupTexts ==
    SeqsUpTo({60, 98, 62, 47}, MaxTextLen - 1)
    \cup {<<38>>, <<97, 38, 98>>, <<38, 97, 109, 112, 59>>, <<49, 60, 50>>}

\* texts of 'a', 'b' and newlines without white space at either end, and the texts
\* with markup characters
SlotTexts ==
    {t \in SeqsUpTo({97, 98, 10}, MaxTextLen) : t = <<>> \/ (t[1] # 10 /\ t[Len(t)] # 10)}
    \cup MarkupTexts

InitSlot ==
    /\ probe = NoProbe
    /\ config = DefaultConfig
    /\ calls = <<>>
    /\ generated = NoPair
    /\ aesKey = <<>> /\ iv = <<>> /\ encryptInput = <<>> /\ decryptInput = <<>>
    /\ report = <<>>
    /\ messageCounter = 0
    /\ timers = <<>>
    /\ page = LoadedPage

UnchangedButSlots ==
    UNCHANGED <<config, calls, generated, aesKey, iv, report, messageCounter, timers, page>>

\* setContentEditableValue(elements.encryptInput, value)
SetEncryptInput ==
    /\ \E v \in SlotTexts :
          /\ encryptInput' = SetContentEditableValue(v)
          /\ probe' = [NoProbe EXCEPT !.fn = "setContentEditableValue",
                                      !.kind = "encryptInput", !.arg = v]
    /\ UNCHANGED decryptInput
    /\ UnchangedButSlots

\* getContentEditableValue of the region that was just set
GetSlotValue ==
    /\ probe.fn = "setContentEditableValue"
    /\ probe' = [probe EXCEPT !.fn = "getContentEditableValue",
                              !.origin = probe.arg,
                              !.val = GetContentEditableValue(encryptInput)]
    /\ UNCHANGED <<encryptInput, decryptInput>>
    /\ UnchangedButSlots

NextSlot ==
    \/ SetEncryptInput
    \/ GetSlotValue

SpecSlot == InitSlot /\ [][NextSlot]_vars

(***************************************************************************)
(* Properties                                                              *)
(***************************************************************************)

Settled(c) == c.pc \in {"settled", "done"}

\* a string made of hexadecimal digits alone, an even number of them
IsPlainHex(str) == Len(str) % 2 = 0 /\ \A i \in 1..Len(str) : IsHexDigit(str[i])

\* the call was given a non-empty payload, a plain hexadecimal key of 16, 24 or 32
\* bytes and a plain hexadecimal IV of the configured length, under a configuration
\* whose IV length the platform cipher takes
WellFormedCall(c) ==
    /\ c.payload # <<>>
    /\ IsPlainHex(c.keyHex) /\ Len(c.keyHex) \in {32, 48, 64}
    /\ IsPlainHex(c.ivHex) /\ Len(c.ivHex) = 2 * config.ivLength
    /\ IvAccepted(config.algorithm, Rep(0, config.ivLength))

\* the messages validateParameters throws
ParameterMessages ==
    {"Para encriptar, forneca uma chave e IV validos.",
     "Para decriptar, forneca uma chave e IV validos.",
     "Chave deve ser uma string hexadecimal valida.",
     "IV deve ser uma string hexadecimal valida.",
     "Chave deve ter 128, 192 ou 256 bits (16, 24 ou 32 bytes).",
     "IV deve ter config.ivLength bytes."}

\* the call ended with a message of `messages` behind the operation's prefix
FailedWith(c, messages) ==
    /\ Settled(c) /\ c.outcome.threw
    /\ Len(c.outcome.msg) = 2 /\ c.outcome.msg[2] \in messages

\* C1: for every non-empty plaintext p, key of 16, 24 or 32 bytes and IV of the
\* configured length, given as plain hex strings, encrypt succeeds and decrypt of its
\* result with the same key and IV returns exactly p.
C1_RoundTripReturnsPlaintext ==
    \A i \in 1..Len(calls) :
        LET c == calls[i]
        IN  /\ (c.op = "encrypt" /\ WellFormedCall(c) /\ Settled(c)) => ~c.outcome.threw
            /\ (c.chained /\ WellFormedCall(c) /\ Settled(c))
                  => (~c.outcome.threw /\ c.outcome.val = c.plain)

\* C2: a call reaches the platform only when the decoded key has 16, 24 or 32 bytes
\* and the decoded IV has config.ivLength bytes; a call with a payload and a decodable
\* key and IV of any other size fails with the key-size or IV-size validation error.
C2_PlatformOnlyWithValidSizes ==
    \A i \in 1..Len(calls) :
        LET c == calls[i]
            k == HexToUint8Array(c.keyHex)
            v == HexToUint8Array(c.ivHex)
            sizesValid == Len(k.val) \in {16, 24, 32} /\ Len(v.val) = config.ivLength
        IN  /\ c.platform # <<>> => (~k.threw /\ ~v.threw /\ sizesValid)
            /\ (Settled(c) /\ c.payload # <<>> /\ ~k.threw /\ ~v.threw /\ ~sizesValid)
                  => FailedWith(c, {"Chave deve ter 128, 192 ou 256 bits (16, 24 ou 32 bytes).",
                                    "IV deve ter config.ivLength bytes."})

\* C3: with a valid IV, validateParameters accepts every keyHex that hexToUint8Array
\* decodes to exactly 16, 24 or 32 bytes and rejects every keyHex it decodes to 15 or
\* 17 bytes.
C3_ValidatorFollowsDecodedKeySize ==
    \A i \in 1..Len(calls) :
        LET c == calls[i]
            k == HexToUint8Array(c.keyHex)
            ivValid == IsPlainHex(c.ivHex) /\ c.ivHex # <<>>
                       /\ Len(c.ivHex) = 2 * config.ivLength
        IN  (Settled(c) /\ ivValid /\ ~k.threw)
               => /\ Len(k.val) \in {16, 24, 32} => ~FailedWith(c, ParameterMessages)
                  /\ Len(k.val) \in {15, 17} => FailedWith(c, ParameterMessages)

\* C5: when the platform backend fails, the error delivered to the caller is a fixed
\* descriptive text and holds none of the backend's own message text.
C5_NoBackendTextInErrors ==
    \A i \in 1..Len(calls) :
        LET c == calls[i]
        IN  (Settled(c) /\ c.outcome.threw)
               => \A j \in 1..Len(c.outcome.msg) : c.outcome.msg[j] \notin BackendMessages

\* C6 as stated: for every byte sequence b of any length, zero included,
\* hexToUint8Array(uint8ArrayToHex(b)) succeeds and returns exactly b.
C6_RoundTripAnyLength ==
    probe.fn = "roundTrip" => (~probe.threw /\ probe.val = probe.origin)

\* C6 as amended: for every non-empty byte sequence b,
\* hexToUint8Array(uint8ArrayToHex(b)) succeeds and returns exactly b; for the empty
\* sequence uint8ArrayToHex returns "" and hexToUint8Array throws the invalid-format error.
C6_RoundTripNonEmpty ==
    probe.fn = "roundTrip"
       => IF probe.origin # <<>>
          THEN ~probe.threw /\ probe.val = probe.origin
          ELSE probe.arg = <<>> /\ probe.threw /\ probe.msg = <<"String hexadecimal invalida">>

\* a round trip of bytes whose hexadecimal form needs its leading zero
C6_Witness ==
    /\ probe.fn = "roundTrip" /\ Len(probe.origin) = MaxBytesLen
    /\ probe.origin[1] = 10 /\ ~probe.threw /\ probe.val = probe.origin

\* C7 as stated: hexToUint8Array returns no byte array for an input that contains any
\* character outside [0-9A-Fa-f]; every such input fails with the invalid-format error.
C7_RejectsAnyNonHexCharacter ==
    (probe.fn = "hexToUint8Array" /\ \E i \in 1..Len(probe.arg) : ~IsHexDigit(probe.arg[i]))
       => (probe.threw /\ probe.msg = <<"String hexadecimal invalida">>)

\* C7 as amended: hexToUint8Array returns no byte array for an input that, once its
\* surrounding white space is trimmed, is empty or contains a character outside
\* [0-9A-Fa-f]; every such input fails with the invalid-format error, and every other
\* input (white space around hexadecimal digits included) is decoded.
C7_RejectsNonHexAfterTrim ==
    probe.fn = "hexToUint8Array"
       => LET t == Trim(probe.arg)
              bad == t = <<>> \/ \E i \in 1..Len(t) : ~IsHexDigit(t[i])
          IN  IF bad THEN probe.threw /\ probe.msg = <<"String hexadecimal invalida">>
              ELSE ~probe.threw /\ Len(probe.val) = (Len(t) + 1) \div 2

\* an input with a 'g' between hexadecimal digits was rejected
C7_Witness ==
    /\ probe.fn = "hexToUint8Array" /\ Len(probe.arg) = 3
    /\ probe.arg[1] = 97 /\ probe.arg[2] = 103 /\ probe.arg[3] = 48
    /\ probe.threw

\* C8 as stated: for every string s, the empty string and strings of white space
\* included, isValidHex(s) is true exactly when every character of s, after trimming,
\* belongs to [0-9A-Fa-f].
C8_TrueIffAllCharactersHex ==
    probe.fn = "isValidHex"
       => (probe.bool <=> \A i \in 1..Len(Trim(probe.arg)) : IsHexDigit(Trim(probe.arg)[i]))

\* C8 as amended: isValidHex(s) is true exactly when s, after trimming, is not empty
\* and all of its characters belong to [0-9A-Fa-f] (it is false for the empty string
\* and for strings of white space); the legacy static isValidHex does not trim and is
\* true exactly when all characters of s are hexadecimal digits and their number is even.
C8_TrueIffNonEmptyAndAllHex ==
    /\ probe.fn = "isValidHex"
          => (probe.bool <=>
                 \E first \in 1..Len(probe.arg) : \E last \in first..Len(probe.arg) :
                    /\ \A i \in 1..(first - 1) : IsWhiteSpace(probe.arg[i])
                    /\ \A i \in (last + 1)..Len(probe.arg) : IsWhiteSpace(probe.arg[i])
                    /\ \A i \in first..last : IsHexDigit(probe.arg[i]))
    /\ probe.fn = "legacyIsValidHex"
          => (probe.bool <=> /\ \A i \in 1..Len(probe.arg) : IsHexDigit(probe.arg[i])
                             /\ Len(probe.arg) % 2 = 0)

\* isValidHex accepted hexadecimal digits with white space around them
C8_Witness ==
    /\ probe.fn = "isValidHex" /\ probe.bool
    /\ Len(probe.arg) = 3 /\ probe.arg[1] = 32 /\ probe.arg[3] = 10

\* the pair is a key of keyLength / 8 bytes and an IV of ivLength bytes in lowercase
\* hexadecimal digits
IsLowerHex(str) == \A i \in 1..Len(str) : str[i] \in (48..57) \cup (97..102)
GeneratedAsConfigured ==
    /\ Len(generated.key) = 2 * (config.keyLength \div 8) /\ IsLowerHex(generated.key)
    /\ Len(generated.iv) = 2 * config.ivLength /\ IsLowerHex(generated.iv)

\* no call made with the generated pair was refused by validateParameters
GeneratedPairPasses ==
    \A i \in 1..Len(calls) :
        (calls[i].keyHex = generated.key /\ calls[i].ivHex = generated.iv)
           => ~FailedWith(calls[i], ParameterMessages)

\* C9 as stated: for every configuration with keyLength in {128, 192, 256} and any
\* configured ivLength, generateKeyAndIV returns a key of keyLength / 8 bytes and an IV
\* of ivLength bytes as lowercase hex, and the pair passes validateParameters.
C9_GeneratedPairAlwaysValid ==
    generated # NoPair => (GeneratedAsConfigured /\ GeneratedPairPasses)

\* C9 as amended: the same for every configured ivLength of at least 1; with an
\* ivLength of 0 the IV is the empty string, which validateParameters refuses as missing.
C9_GeneratedPairValidForPositiveIvLength ==
    generated # NoPair
       => /\ GeneratedAsConfigured
          /\ config.ivLength >= 1 => GeneratedPairPasses
          /\ config.ivLength = 0
                => \A i \in 1..Len(calls) :
                      FailedWith(calls[i], {"Para encriptar, forneca uma chave e IV validos."})

\* an encrypt call with a generated 256-bit key and 12-byte IV returned a ciphertext
C9_Witness ==
    /\ generated # NoPair /\ config.keyLength = 256 /\ config.ivLength = 12
    /\ Len(calls) = 1 /\ calls[1].keyHex = generated.key /\ calls[1].ivHex = generated.iv
    /\ calls[1].pc = "settled" /\ ~calls[1].outcome.threw

\* the check that the validation message m reports fails on the inputs of call c
CheckFails(c, m) ==
    CASE m = "Para encriptar, forneca uma chave e IV validos."
            -> c.op = "encrypt" /\ (c.keyHex = <<>> \/ c.ivHex = <<>>)
      [] m = "Para decriptar, forneca uma chave e IV validos."
            -> c.op = "decrypt" /\ (c.keyHex = <<>> \/ c.ivHex = <<>>)
      [] m = "Chave deve ser uma string hexadecimal valida."
            -> \E j \in 1..Len(Trim(c.keyHex)) : ~IsHexDigit(Trim(c.keyHex)[j])
      [] m = "IV deve ser uma string hexadecimal valida."
            -> \E j \in 1..Len(Trim(c.ivHex)) : ~IsHexDigit(Trim(c.ivHex)[j])
      [] m = "Chave deve ter 128, 192 ou 256 bits (16, 24 ou 32 bytes)."
            -> Len(c.keyHex) \notin {32, 48, 64}
      [] m = "IV deve ter config.ivLength bytes."
            -> Len(c.ivHex) # 2 * config.ivLength
      [] m = "Texto para encriptacao nao pode estar vazio."
            -> c.op = "encrypt" /\ c.payload = <<>>
      [] m = "Dados para decriptacao nao podem estar vazios."
            -> c.op = "decrypt" /\ c.payload = <<>>
      [] m = "Dados encriptados devem ser uma string hexadecimal valida."
            -> c.op = "decrypt" /\ \E j \in 1..Len(Trim(c.payload)) : ~IsHexDigit(Trim(c.payload)[j])
      [] OTHER -> FALSE

\* every call on whose inputs a validation check fails has failed, without a platform
\* operation, with the operation's prefix and the message of a check that fails on them
ValidationFailuresReported ==
    \A i \in 1..Len(calls) :
        LET c == calls[i]
        IN  (\E m \in ValidationMessages : CheckFails(c, m))
               => /\ Settled(c) /\ c.outcome.threw /\ c.platform = <<>>
                  /\ Len(c.outcome.msg) = 2
                  /\ c.outcome.msg[1] = (IF c.op = "encrypt" THEN "Erro na encriptacao: "
                                         ELSE "Erro na decriptacao: ")
                  /\ CheckFails(c, c.outcome.msg[2])

\* the text of the message added by the step
AddedMessage == report'[Len(report')]

\* a click with a missing key, IV or payload adds an error message and issues no call,
\* and the handler that resumes on a call refused by the validation shows the call's
\* error and writes to no field
ClickFailuresReported ==
    /\ \A operation \in {"encrypt", "decrypt"} :
          LET inputs  == GetInputValues
              payload == IF operation = "encrypt" THEN inputs.encryptData
                         ELSE inputs.decryptData
          IN  (ClickCipher(operation)
                  /\ (inputs.keyHex = <<>> \/ inputs.ivHex = <<>> \/ payload = <<>>))
                 => /\ calls' = calls
                    /\ Len(report') = Len(report) + 1
                    /\ AddedMessage.type = "error"
                    /\ AddedMessage.text \in
                          {<<"Chave AES e IV sao obrigatorios. Use Gerar Chaves se necessario.">>,
                           <<"Digite o texto a ser encriptado.">>,
                           <<"Digite os dados a serem decriptados.">>}
    /\ \A i \in 1..Len(calls) :
          (HandlerResumes /\ calls[i].pc = "settled" /\ calls'[i].pc = "done"
              /\ FailedWith(calls[i], ValidationMessages))
             => /\ Len(report') = Len(report) + 1
                /\ AddedMessage.type = "error"
                /\ AddedMessage.text = calls[i].outcome.msg
                /\ UNCHANGED <<aesKey, iv, encryptInput, decryptInput>>

\* C4: a call of encrypt or decrypt with an empty payload, or with a key or IV that
\* fails a validation check, fails with the error of a check that fails on its inputs
\* and invokes no platform operation; a click on the encrypt or decrypt button with such
\* inputs shows an error, and no platform operation is invoked for it either.
C4_ValidationFailsBeforePlatform ==
    []ValidationFailuresReported /\ [][ClickFailuresReported]_vars

\* the encrypt handler has shown the key-size error of a call made with a 15-byte key
\* typed in the key field, and the call invoked no platform operation
C4_Witness ==
    \E i \in 1..Len(calls) :
        /\ calls[i].src = "ui" /\ calls[i].op = "encrypt" /\ calls[i].pc = "done"
        /\ Len(calls[i].keyHex) = 30 /\ calls[i].platform = <<>>
        /\ FailedWith(calls[i], {"Chave deve ter 128, 192 ou 256 bits (16, 24 ou 32 bytes)."})
        /\ \E j \in 1..Len(report) :
              report[j].type = "error" /\ report[j].text = calls[i].outcome.msg

\* C10: every click on the generate button of the application in its default
\* configuration writes a 256-bit key (64 hex characters) to the key field and a
\* 128-bit IV (32 hex characters) to the IV field.
C10_GenerateWrites256BitKey ==
    [][ClickGenerateKey => (Len(aesKey') = 64 /\ Len(iv') = 32)]_vars

\* C12: for every text of ordinary characters and newlines without white space at
\* either end, getContentEditableValue returns exactly the text that
\* setContentEditableValue (with the normalization its input event runs) was given.
C12_NewlinesSurviveSetAndGet ==
    (probe.fn = "getContentEditableValue" /\ probe.origin \notin MarkupTexts)
       => probe.val = probe.origin

\* the content of an editable region that shows the text: its characters, with a
\* <br> for each newline
AsBreaks(text) == [i \in 1..Len(text) |-> IF text[i] = 10 THEN BR ELSE text[i]]

\* C11: the handler of a successful encrypt writes the ciphertext to the decryption
\* slot and leaves the key, the IV and the encryption slot as they are; the handler of
\* a successful decrypt writes the plaintext to the encryption slot and leaves the key,
\* the IV and the decryption slot as they are.
C11_ResultWrittenToOppositeSlotOnly ==
    [][\A i \in 1..Len(calls) :
          (HandlerResumes /\ calls[i].pc = "settled" /\ calls'[i].pc = "done"
              /\ ~calls[i].outcome.threw)
             => IF calls[i].op = "encrypt"
                THEN /\ decryptInput' = AsBreaks(calls[i].outcome.val)
                     /\ UNCHANGED <<aesKey, iv, encryptInput>>
                ELSE /\ encryptInput' = AsBreaks(calls[i].outcome.val)
                     /\ UNCHANGED <<aesKey, iv, decryptInput>>]_vars

\* what a call comes to when no other call is in flight: the call is issued and its
\* awaits resume one after the other
RunAlone(cfg, c) ==
    LET issued == NewCall(cfg, c.src, c.op, c.payload, c.keyHex, c.ivHex, c.chained, c.plain)
        imported == IF issued.pc = "importKey" THEN AfterImportKey(cfg, issued) ELSE issued
    IN  IF imported.pc = "cipher" THEN AfterCipher(cfg, imported) ELSE imported

\* C13: every call on one AESCrypto instance settles with the outcome (the ciphertext,
\* the plaintext or the Error) and the platform operations it has when it runs alone,
\* however the calls in flight are interleaved.
C13_OverlappingCallsAreIndependent ==
    \A i \in 1..Len(calls) :
        calls[i].pc = "settled"
           => /\ calls[i].outcome = RunAlone(config, calls[i]).outcome
              /\ calls[i].platform = RunAlone(config, calls[i]).platform

\* a decrypt issued after an encrypt with another key and IV has returned while the
\* encrypt is still awaiting its cipher operation
C13_Witness ==
    /\ Len(calls) = 2
    /\ calls[1].op = "encrypt" /\ calls[1].pc = "cipher"
    /\ calls[2].op = "decrypt" /\ calls[2].pc = "settled" /\ ~calls[2].outcome.threw
    /\ calls[1].keyData # calls[2].keyData /\ calls[1].ivData # calls[2].ivData

ScheduledDuration(i) ==
    LET n == CHOOSE n \in 1..Len(timers) :
                 timers[n].kind = "expiry" /\ timers[n].el = report[i].el
    IN  timers[n].delay

HasExpiryTimer(i) ==
    \E n \in 1..Len(timers) : timers[n].kind = "expiry" /\ timers[n].el = report[i].el

\* C15: a message of 100 characters is scheduled to be displayed strictly longer than
\* any message of 10 characters (the duration grows with the number of characters).
C15_LongerTextDisplayedLonger ==
    \A i, j \in 1..Len(report) :
        (/\ HasExpiryTimer(i) /\ HasExpiryTimer(j)
         /\ LengthOf(report[i].text) = 100 /\ LengthOf(report[j].text) = 10)
           => ScheduledDuration(i) > ScheduledDuration(j)

\* the id was removed already: no element of the report that is not fading out has it
AlreadyRemoved(id) ==
    \A i \in 1..Len(report) : report[i].id = id => report[i].fadeOut

Attached(el) == \E i \in 1..Len(report) : report[i].el = el

\* C16: removeMessage called for an id that was removed already (its element fading
\* out, or detached) changes no message of the report, and an element that has been
\* detached is never in the report again.
C16_RemoveAgainIsNoOp ==
    /\ [](\A k \in 1..Len(page.issued) :
              AlreadyRemoved(page.issued[k])
                 => RemoveMessage(report, timers, page.issued[k]).report = report)
    /\ [][\A c \in 1..MaxAdded :
              (c <= messageCounter /\ ~Attached(<<1, c>>)) => ~Attached(<<1, c>>)']_vars

\* removeMessage has run twice for a message that is still fading out: two timers are
\* set to detach its element
C16_Witness ==
    \E i \in 1..Len(report), n, m \in 1..Len(timers) :
        /\ report[i].fadeOut
        /\ n # m
        /\ timers[n].kind = "detach" /\ timers[n].el = report[i].el
        /\ timers[m].kind = "detach" /\ timers[m].el = report[i].el

\* C18: a message fades out only after its fade-in step has run (fade-out never begins
\* before the fade-in timer added the class that makes it visible).
C18_FadeOutOnlyAfterFadeIn ==
    \A i \in 1..Len(report) : report[i].fadeOut => report[i].show

ClickInputs(operation) ==
    [op |-> operation, keyHex |-> GetInputValues.keyHex, ivHex |-> GetInputValues.ivHex,
     payload |-> IF operation = "encrypt" THEN GetInputValues.encryptData
                 ELSE GetInputValues.decryptData]

\* C20: a click on the encrypt or decrypt button whose inputs fail a validation check
\* adds an error message in the click handler itself, before the handler awaits
\* anything: the first message the click adds is of the error kind (and not the
\* in-progress info message).
C20_ValidationErrorIsFirstMessage ==
    [][\A operation \in {"encrypt", "decrypt"} :
          (ClickCipher(operation)
              /\ \E m \in ValidationMessages : CheckFails(ClickInputs(operation), m))
             => /\ Len(report') > Len(report)
                /\ report'[Len(report) + 1].type = "error"]_vars

\* how many times the report region shows the incompatibility message
NoticesShown == Len(SelectSeq(report, LAMBDA m : m.text = IncompatibilityText))

\* C17: on a platform without crypto.subtle or without TextEncoder / TextDecoder, once
\* main.ts has run no AESCryptoManager is ever constructed (so no click handler is
\* registered), the incompatibility message is never written twice, and once the
\* document has loaded the report region shows it exactly once.
C17_IncompatiblePlatformNeverInitializes ==
    (page.moduleRan /\ ~CheckBrowserCompatibility(page))
       => /\ page.managers = 0
          /\ page.notices <= 1
          /\ page.readyState = "complete" => NoticesShown = 1

\* the messages of the validation checks of an operation, in the order: missing key or
\* IV, key format, IV format, key size, IV size, empty payload, payload format
CheckOrder(operation) ==
    IF operation = "encrypt"
    THEN <<"Para encriptar, forneca uma chave e IV validos.",
           "Chave deve ser uma string hexadecimal valida.",
           "IV deve ser uma string hexadecimal valida.",
           "Chave deve ter 128, 192 ou 256 bits (16, 24 ou 32 bytes).",
           "IV deve ter config.ivLength bytes.",
           "Texto para encriptacao nao pode estar vazio.">>
    ELSE <<"Para decriptar, forneca uma chave e IV validos.",
           "Chave deve ser uma string hexadecimal valida.",
           "IV deve ser uma string hexadecimal valida.",
           "Chave deve ter 128, 192 ou 256 bits (16, 24 ou 32 bytes).",
           "IV deve ter config.ivLength bytes.",
           "Dados para decriptacao nao podem estar vazios.",
           "Dados encriptados devem ser uma string hexadecimal valida.">>

SomeCheckFails(c) == \E n \in 1..Len(CheckOrder(c.op)) : CheckFails(c, CheckOrder(c.op)[n])

\* the position in CheckOrder of the earliest check that fails on the inputs of c
EarliestFailing(c) ==
    CHOOSE n \in 1..Len(CheckOrder(c.op)) :
        /\ CheckFails(c, CheckOrder(c.op)[n])
        /\ \A k \in 1..(n - 1) : ~CheckFails(c, CheckOrder(c.op)[k])

\* the text by which the click handler reports a check it makes itself
ClickTextOf(operation, n) ==
    IF n = 1 THEN <<"Chave AES e IV sao obrigatorios. Use Gerar Chaves se necessario.">>
    ELSE IF operation = "encrypt" THEN <<"Digite o texto a ser encriptado.">>
    ELSE <<"Digite os dados a serem decriptados.">>

\* C21: on inputs that fail several validation checks, the adapter throws the message
\* of the earliest failing check of CheckOrder, and a click reports the earliest failing
\* check too: by its own error message when that check is the missing key or IV or the
\* empty payload, and otherwise by issuing the adapter call that throws it.
C21_EarliestFailingCheckReported ==
    /\ [](\A i \in 1..Len(calls) :
             SomeCheckFails(calls[i])
                => /\ FailedWith(calls[i], ValidationMessages)
                   /\ calls[i].outcome.msg[2]
                         = CheckOrder(calls[i].op)[EarliestFailing(calls[i])])
    /\ [][\A operation \in {"encrypt", "decrypt"} :
             (ClickCipher(operation) /\ SomeCheckFails(ClickInputs(operation)))
                => LET n == EarliestFailing(ClickInputs(operation))
                   IN  IF n \in {1, 6}
                       THEN /\ calls' = calls
                            /\ AddedMessage.type = "error"
                            /\ AddedMessage.text = ClickTextOf(operation, n)
                       ELSE /\ Len(calls') = Len(calls) + 1
                            /\ calls'[Len(calls')].outcome.msg[2]
                                  = CheckOrder(operation)[n]]_vars

PendingTip(kind) == \E n \in 1..Len(timers) : timers[n].kind = kind

\* C22: once the element that bears the tooltip is neither hovered nor focused, no show
\* timer is pending (leave and blur cancelled them all), and when its hide timers have
\* fired no tooltip is displayed.
C22_NoTooltipOnceLeft ==
    (~page.hovered /\ ~page.focused)
       => /\ ~PendingTip("tipShow")
          /\ ~PendingTip("tipHide") => ~page.tooltip

\* C23: the tooltip as positionTooltip places it (position: fixed, so top and left are
\* measured from the viewport) lies entirely inside the viewport.
C23_TooltipInsideViewport ==
    probe.fn = "positionTooltip"
       => /\ probe.val.top2 >= 0 /\ probe.val.left2 >= 0
          /\ probe.val.top2 + 2 * probe.arg.tip.height <= 2 * probe.arg.viewport.height
          /\ probe.val.left2 + 2 * probe.arg.tip.width <= 2 * probe.arg.viewport.width

\* all there is of the c-th message of the UIManager: its element in the report region
\* (with its visual state) and its timers (with their delays)
MessageView(c) ==
    <<SelectSeq(report, LAMBDA m : m.el = <<1, c>>),
      SelectSeq(timers, LAMBDA t : t.el = <<1, c>>)>>

C25_LatestActionWins ==
    (calls # <<>> /\ \A i \in 1..Len(calls) : calls[i].pc = "done" /\ ~calls[i].outcome.threw)
       => decryptInput = SetContentEditableValue(calls[Len(calls)].outcome.val)

\* C26: the handler that resumes on a settled call adds exactly one message: a success
\* message, and then it has written the result into the target slot (by
\* setContentEditableValue), or an error message, and then the key, the IV and both
\* slots are as they were.
C26_OneTerminalMessage ==
    [][\A i \in 1..Len(calls) :
          (HandlerResumes /\ calls[i].pc = "settled" /\ calls'[i].pc = "done")
             => /\ Len(report') = Len(report) + 1
                /\ IF calls[i].outcome.threw
                   THEN /\ AddedMessage.type = "error"
                        /\ UNCHANGED <<aesKey, iv, encryptInput, decryptInput>>
                   ELSE /\ AddedMessage.type = "success"
                        /\ IF calls[i].op = "encrypt"
                           THEN decryptInput' = SetContentEditableValue(calls[i].outcome.val)
                           ELSE encryptInput' = SetContentEditableValue(calls[i].outcome.val)]_vars

\* a decrypt action has ended with an error message while the encryption slot holds
\* the text the user typed
C26_Witness ==
    /\ \E i \in 1..Len(calls) :
          calls[i].src = "ui" /\ calls[i].pc = "done" /\ calls[i].op = "decrypt"
             /\ calls[i].outcome.threw
    /\ encryptInput # <<>>
    /\ \E k \in 1..Len(report) : report[k].type = "error"

\* C27: a text with markup characters written into an editable slot is there as
\* literal text: the value read back is the text that was written.
C27_MarkupWrittenAsLiteralText ==
    (probe.fn = "getContentEditableValue" /\ probe.origin \in MarkupTexts)
       => probe.val = probe.origin

(***************************************************************************)
(* Specification of key import: a manager constructed with a configuration *)
(* and a script that calls importKey on it                                 *)
(***************************************************************************)

MaxImports == 2

\* keys of the three sizes, "", 15 bytes, "zz", 15 bytes between spaces
ImportKeys ==
    PlainKeys \cup {<<>>, HexPattern(30, 3), <<122, 122>>, Padded(HexPattern(30, 3), 1, 1)}

\* IVs of the configured length, of 16 and of 12 bytes, "", "zz"
ImportIVs(cfg) ==
    {HexPattern(2 * n, 5) : n \in {cfg.ivLength, 16, 12}} \cup {<<>>, <<122, 122>>}

InitImport ==
    /\ probe = NoProbe
    /\ config \in Configs
    /\ calls = <<>>
    /\ generated = NoPair
    /\ aesKey = <<>> /\ iv = <<>> /\ encryptInput = <<>> /\ decryptInput = <<>>
    /\ report = <<>>
    /\ messageCounter = 0
    /\ timers = <<>>
    /\ page = LoadedPage

\* importKey(keyHex, ivHex); the probe keeps the pair, whether importKey accepted it
\* (bool) and whether validateParameters of the manager's AESCrypto throws on it (threw)
CallImportKey ==
    /\ messageCounter < MaxImports
    /\ \E k \in ImportKeys, v \in ImportIVs(config) :
          LET r == ManagerImportKey(config, k, v)
              checked == ValidateParameters(config, k, v, "encrypt")
          IN  /\ aesKey' = r.aesKey /\ iv' = r.iv
              /\ SetMessages(r.messages)
              /\ probe' = [NoProbe EXCEPT !.fn = "importKey", !.arg = k, !.origin = v,
                                          !.bool = r.accepted, !.threw = checked.threw,
                                          !.msg = checked.msg]
    /\ UNCHANGED <<config, calls, generated, encryptInput, decryptInput, page>>

SpecImport == InitImport /\ [][CallImportKey]_vars

\* C29: importKey accepts a key/IV pair exactly when validateParameters of the same
\* manager's AESCrypto accepts it, whatever the configuration.
C29_ImportKeyAgreesWithValidateParameters ==
    probe.fn = "importKey" => (probe.bool <=> ~probe.threw)

\* C28: however often initializeAESCryptoApp and reinitializeApp run, the buttons have
\* the click listeners of one AESCryptoManager at most, and a click on #generateKey
\* adds one message.
C28_OneHandlerPerButton ==
    /\ [](page.managers <= 1)
    /\ [][PageClickGenerateKey => Len(report') = Len(report) + 1]_vars

\* the timers of the c-th message of the UIManager
TimersOf(c) == SelectSeq(timers, LAMBDA t : t.el = <<1, c>>)

====
